---- MODULE Spec2Model ----
(***************************************************************************)
(* Model of the CDD conversion core:                                       *)
(*   - EnhancedCDDParser (enhanced_cdd_parser.py): parse_file and the      *)
(*     extractor chain, stepped element by element;                        *)
(*   - CDDToODXConverter (src/main_cdd_to_odx.py): the mapping of          *)
(*     services and data identifiers onto ODX records.                     *)
(* Python strings are sequences of tokens; a token is one character        *)
(* wherever the code looks at characters (identifiers, numbers) and a      *)
(* whole word otherwise.  None is the one-token sequence <<"<None>">>.     *)
(* An optional element or object is a sequence of length 0 or 1.           *)
(***************************************************************************)
EXTENDS Integers, Sequences, FiniteSets, TLC

VARIABLES
  document,      \* self.document of the EnhancedCDDParser instance
  pc,            \* position of parse_file on that instance
  root,          \* the tree ET.parse returned for the file being parsed
  idx,           \* index of the element loop of _extract_dids / _extract_protocol_services
  elem,          \* loop variable did_elem / service_elem (last element handed to a parser)
  parsed,        \* what _parse_did / _parse_protocol_service returned for elem
  calls,         \* number of parse_file calls made on the instance
  data,          \* the DiagnosticData handed to _convert_diagnostic_data
  mpc,           \* position of _convert_diagnostic_data
  midx,          \* index of its service loop / DID loop
  src_rec,       \* loop variable service / did of the mapper
  odx_rec,       \* what _convert_service / _convert_data_identifier returned for src_rec
  odx_services,  \* the list odx_services being built
  odx_dids,      \* the list odx_dids being built
  run_file,      \* the input file of an extraction that is run twice
  run_first,     \* what the first of the two runs handed to its caller
  service_name_arg,    \* argument service_name of a call of _get_enhanced_service_description
  uds_service_id_arg,  \* argument uds_service_id of that call
  description_ret,     \* what that call returned
  epc,                 \* position of that call
  parsers,       \* self.document of the parser each upload_file request constructed
  uploads        \* position, file and results of each upload_file request

parser_vars == <<document, pc, root, idx, elem, parsed, calls>>
mapper_vars == <<data, mpc, midx, src_rec, odx_rec, odx_services, odx_dids>>
rerun_vars == <<run_file, run_first>>
enrich_vars == <<service_name_arg, uds_service_id_arg, description_ret, epc>>
upload_vars == <<parsers, uploads>>
vars == <<document, pc, root, idx, elem, parsed, calls,
          data, mpc, midx, src_rec, odx_rec, odx_services, odx_dids,
          run_file, run_first,
          service_name_arg, uds_service_id_arg, description_ret, epc,
          parsers, uploads>>

----------------------------------------------------------------------------
\* Bounds of the model

MaxFileDids == 2
MaxFileSvcs == 2
MaxParses == 2
MaxParams == 2
MaxServices == 2
MaxDataIdentifiers == 2
MaxNameWords == 2
MaxUploads == 2

\* the upload_file requests being handled
Requests == 1..MaxUploads

----------------------------------------------------------------------------
\* Python values

None == <<"<None>">>
NoneRec == [none |-> TRUE]
Absent == <<>>
Present(e) == <<e>>

Truthy(s) == s # None /\ s # <<>>

SeqsUpTo(S, n) == UNION {[1..k -> S] : k \in 0..n}

RECURSIVE FilterSeq(_, _)
\* a list comprehension: the members of s whose index is in keep, in order
FilterSeq(s, keep) ==
  IF s = <<>> THEN <<>>
  ELSE LET n == Len(s)
           init == FilterSeq(SubSeq(s, 1, n - 1), keep)
       IN IF n \in keep THEN Append(init, s[n]) ELSE init

RECURSIVE Concat(_)
Concat(ss) == IF ss = <<>> THEN <<>> ELSE Head(ss) \o Concat(Tail(ss))

----------------------------------------------------------------------------
\* Characters and numbers

DecChars == <<"0", "1", "2", "3", "4", "5", "6", "7", "8", "9">>
HexUpper == <<"0", "1", "2", "3", "4", "5", "6", "7", "8", "9",
              "A", "B", "C", "D", "E", "F">>
HexLower == <<"0", "1", "2", "3", "4", "5", "6", "7", "8", "9",
              "a", "b", "c", "d", "e", "f">>

IsDec(c) == \E i \in 1..10 : DecChars[i] = c
IsHexChar(c) == \E i \in 1..16 : HexUpper[i] = c \/ HexLower[i] = c
HexVal(c) == CHOOSE i \in 0..15 : HexUpper[i + 1] = c \/ HexLower[i + 1] = c
IsSpace(c) == c = " "

RECURSIVE lstrip(_)
lstrip(s) == IF s # <<>> /\ IsSpace(Head(s)) THEN lstrip(Tail(s)) ELSE s
RECURSIVE rstrip(_)
rstrip(s) ==
  IF s # <<>> /\ IsSpace(s[Len(s)]) THEN rstrip(SubSeq(s, 1, Len(s) - 1)) ELSE s
\* str.strip()
strip(s) == rstrip(lstrip(s))

LowerLetters ==
  <<"a", "b", "c", "d", "e", "f", "g", "h", "i", "j", "k", "l", "m",
    "n", "o", "p", "q", "r", "s", "t", "u", "v", "w", "x", "y", "z">>
UpperLetters ==
  <<"A", "B", "C", "D", "E", "F", "G", "H", "I", "J", "K", "L", "M",
    "N", "O", "P", "Q", "R", "S", "T", "U", "V", "W", "X", "Y", "Z">>

\* str.upper(), character by character
UpperChar(c) ==
  IF \E i \in 1..26 : LowerLetters[i] = c
  THEN UpperLetters[CHOOSE i \in 1..26 : LowerLetters[i] = c]
  ELSE c
upper(s) == [i \in 1..Len(s) |-> UpperChar(s[i])]

startswith(s, p) == Len(s) >= Len(p) /\ SubSeq(s, 1, Len(p)) = p

\* The digits of an integer literal after sign and prefix: digits, with single
\* underscores allowed between digits.
DigitsOk(s, isDigit(_)) ==
  /\ s # <<>>
  /\ isDigit(s[1]) /\ isDigit(s[Len(s)])
  /\ \A i \in 1..Len(s) : isDigit(s[i]) \/ s[i] = "_"
  /\ \A i \in 1..(Len(s) - 1) : ~(s[i] = "_" /\ s[i + 1] = "_")

RECURSIVE DigitsValue(_, _)
DigitsValue(s, base) ==
  IF s = <<>> THEN 0
  ELSE LET n == Len(s)
           init == DigitsValue(SubSeq(s, 1, n - 1), base)
       IN IF s[n] = "_" THEN init ELSE init * base + HexVal(s[n])

\* int(text): [ok, val]; ok = FALSE stands for ValueError
PyInt(text) ==
  LET s == strip(text)
      signed == s # <<>> /\ (s[1] = "-" \/ s[1] = "+")
      body == IF signed THEN Tail(s) ELSE s
  IN IF DigitsOk(body, IsDec)
     THEN [ok |-> TRUE,
           val |-> IF signed /\ s[1] = "-" THEN 0 - DigitsValue(body, 10)
                   ELSE DigitsValue(body, 10)]
     ELSE [ok |-> FALSE, val |-> 0]

\* int(text, 16): as PyInt, with an optional 0x / 0X prefix after the sign
PyIntHex(text) ==
  LET s == strip(text)
      signed == s # <<>> /\ (s[1] = "-" \/ s[1] = "+")
      unsigned == IF signed THEN Tail(s) ELSE s
      prefixed == startswith(unsigned, <<"0", "x">>) \/ startswith(unsigned, <<"0", "X">>)
      body == IF prefixed THEN SubSeq(unsigned, 3, Len(unsigned)) ELSE unsigned
      \* after a prefix one underscore may precede the digits
      digits == IF prefixed /\ body # <<>> /\ body[1] = "_" THEN Tail(body) ELSE body
  IN IF DigitsOk(digits, IsHexChar)
     THEN [ok |-> TRUE,
           val |-> IF signed /\ s[1] = "-" THEN 0 - DigitsValue(digits, 16)
                   ELSE DigitsValue(digits, 16)]
     ELSE [ok |-> FALSE, val |-> 0]

RECURSIVE HexDigits(_)
\* the uppercase hex digits of n >= 0, most significant first
HexDigits(n) ==
  IF n < 16 THEN <<HexUpper[n + 1]>>
  ELSE Append(HexDigits(n \div 16), HexUpper[(n % 16) + 1])

RECURSIVE ZeroPad(_, _)
ZeroPad(s, width) == IF Len(s) >= width THEN s ELSE ZeroPad(<<"0">> \o s, width)

\* format(n, "0<width>X"): the sign counts in the width
FormatX(n, width) ==
  IF n < 0 THEN <<"-">> \o ZeroPad(HexDigits(0 - n), width - 1)
  ELSE ZeroPad(HexDigits(n), width)

\* A variant of Format04X that does not pad.
Format04X_unpadded(n) == FormatX(n, 1)

\* f"{did_number:04X}"
Format04X(n) == FormatX(n, 4)

\* f"{response_id:02X}"
Format02X(n) == FormatX(n, 2)

----------------------------------------------------------------------------
\* XML elements, as the find / findall / get calls of the parser see them

\* a TUV element: its xml:lang attribute (None when undeclared) and its text
\* (None for an element without text)
TUV(lang, text) == [lang |-> lang, text |-> text]

\* elem.get(name, ''): the attribute, or the empty string
AttrOrEmpty(a) == IF a = None THEN <<>> ELSE a

\* The name element of an extractor without language preference:
\* find('NAME/TUV'), else the first of findall('.//TUV'), else None
FirstNameElem(e) ==
  IF e.name_tuv # Absent THEN e.name_tuv
  ELSE IF e.tuvs # <<>> THEN Present(e.tuvs[1]) ELSE Absent

\* 'xml:lang' not in elem.attrib: ElementTree stores an xml:lang attribute under
\* the key '{http://www.w3.org/XML/1998/namespace}lang', never under the literal
\* key 'xml:lang', so the test is true of every parsed element
LacksLiteralXmlLangKey(tuv) == TRUE

\* The name element of _parse_did: find('NAME/TUV'), else
\* next((elem for elem in name_elems if <no literal key> or lang == 'en-US'),
\*      name_elems[0] if name_elems else None)
DidNameElem(e) ==
  IF e.name_tuv # Absent THEN e.name_tuv
  ELSE LET hits == {i \in 1..Len(e.tuvs) :
                      LacksLiteralXmlLangKey(e.tuvs[i]) \/ e.tuvs[i].lang = <<"en-US">>}
       IN IF hits # {} THEN Present(e.tuvs[CHOOSE i \in hits : \A j \in hits : i <= j])
          ELSE IF e.tuvs # <<>> THEN Present(e.tuvs[1]) ELSE Absent

\* qual_elem.text if qual_elem is not None else <default>
QualOr(e, default) == IF e.qual # Absent THEN e.qual[1] ELSE default

_parse_data_object(o) ==
  LET name_elem == FirstNameElem(o)
      name == IF name_elem # Absent THEN name_elem[1].text ELSE <<"DataObject">>
  IN [id |-> AttrOrEmpty(o.id),
      name |-> name,
      qualifier |-> QualOr(o, name),
      description |-> <<>>,
      data_type_ref |-> AttrOrEmpty(o.dtref),
      spec |-> AttrOrEmpty(o.spec)]

\* A variant of _parse_did that collects every DATAOBJ descendant of the DID.
_parse_did_all_dataobjs(e) ==
  LET did_number == PyInt(IF e.n = None THEN <<"0">> ELSE e.n)
      did_hex == <<"0", "x">> \o Format04X(did_number.val)
      name_elem == DidNameElem(e)
      name == IF name_elem # Absent THEN name_elem[1].text ELSE <<"DID_">> \o did_hex
      desc_elem == IF e.desc_tuv # Absent THEN e.desc_tuv
                   ELSE IF e.desc_tuvs # <<>> THEN Present(e.desc_tuvs[1]) ELSE Absent
      objs == (IF e.structure # Absent THEN e.structure[1] ELSE <<>>) \o e.stray
  IN IF ~did_number.ok THEN NoneRec
     ELSE [id |-> AttrOrEmpty(e.id),
           number |-> did_number.val,
           number_hex |-> did_hex,
           name |-> name,
           qualifier |-> QualOr(e, name),
           description |-> IF desc_elem # Absent THEN desc_elem[1].text ELSE <<>>,
           data_objects |-> [i \in 1..Len(objs) |-> _parse_data_object(objs[i])]]

_parse_did(e) ==
  LET did_number == PyInt(IF e.n = None THEN <<"0">> ELSE e.n)
      did_hex == <<"0", "x">> \o Format04X(did_number.val)
      name_elem == DidNameElem(e)
      name == IF name_elem # Absent THEN name_elem[1].text ELSE <<"DID_">> \o did_hex
      desc_elem == IF e.desc_tuv # Absent THEN e.desc_tuv
                   ELSE IF e.desc_tuvs # <<>> THEN Present(e.desc_tuvs[1]) ELSE Absent
      data_objects ==
        IF e.structure # Absent
        THEN [i \in 1..Len(e.structure[1]) |-> _parse_data_object(e.structure[1][i])]
        ELSE <<>>
  IN IF ~did_number.ok THEN NoneRec      \* ValueError, caught at line 234
     ELSE [id |-> AttrOrEmpty(e.id),
           number |-> did_number.val,
           number_hex |-> did_hex,
           name |-> name,
           qualifier |-> QualOr(e, name),
           description |-> IF desc_elem # Absent THEN desc_elem[1].text ELSE <<>>,
           data_objects |-> data_objects]

_parse_component(c, comp_type) ==
  LET name_elem == FirstNameElem(c)
  IN [id |-> AttrOrEmpty(c.id),
      name |-> IF name_elem # Absent THEN name_elem[1].text ELSE <<"Component">>,
      qualifier |-> QualOr(c, <<>>),
      description |-> <<>>,
      component_type |-> comp_type,
      must |-> (c.must = <<"1">>),
      spec |-> AttrOrEmpty(c.spec),
      bit_length |-> AttrOrEmpty(c.bl),
      value |-> AttrOrEmpty(c.v),
      data_type_ref |-> AttrOrEmpty(c.dtref)]

\* A variant of _parse_service_message that keeps the components in document
\* order, whatever their kind.
_parse_service_message_document_order(m) ==
  LET name_elem == FirstNameElem(m)
  IN [id |-> AttrOrEmpty(m.id),
      name |-> IF name_elem # Absent THEN name_elem[1].text ELSE <<"Message">>,
      qualifier |-> QualOr(m, <<>>),
      components |-> [i \in 1..Len(m.comps) |-> _parse_component(m.comps[i], m.comps[i].tag)]]

\* msg_elem.findall('.//<tag>'), each parsed as a component of that kind
ComponentsOfKind(m, tag) ==
  LET of_kind == FilterSeq(m.comps, {i \in 1..Len(m.comps) : m.comps[i].tag = tag})
  IN [i \in 1..Len(of_kind) |-> _parse_component(of_kind[i], tag)]

_parse_service_message(m) ==
  LET name_elem == FirstNameElem(m)
  IN [id |-> AttrOrEmpty(m.id),
      name |-> IF name_elem # Absent THEN name_elem[1].text ELSE <<"Message">>,
      qualifier |-> QualOr(m, <<>>),
      components |-> ComponentsOfKind(m, "CONSTCOMP")
                     \o ComponentsOfKind(m, "STATICCOMP")
                     \o ComponentsOfKind(m, "SIMPLEPROXYCOMP")]
----------------------------------------------------------------------------
\* Service description enrichment

\* the keys of uds_descriptions
UdsDescriptionIds == {16, 17, 20, 25, 34, 35, 36, 39, 40, 42, 44, 46, 47, 49, 52, 53, 54, 55, 56, 61, 62, 131, 132, 133, 134, 135}

\* uds_descriptions[sid]
uds_descriptions(sid) ==
  CASE sid = 16 ->   \* 0x10
       <<"Controls diagnostic session state. Allows switching between different diagnostic sessions (default, programming, extended) with different access levels and timeouts.">>
    [] sid = 17 ->   \* 0x11
       <<"Performs ECU reset operations. Supports hard reset, key-off-on reset, and soft reset to restart ECU functionality.">>
    [] sid = 20 ->   \* 0x14
       <<"Clears diagnostic trouble codes (DTCs) and their associated status information from ECU memory.">>
    [] sid = 25 ->   \* 0x19
       <<"Reads diagnostic trouble codes (DTCs) with various subfunctions for different DTC formats and status masks.">>
    [] sid = 34 ->   \* 0x22
       <<"Reads data from ECU memory using Data Identifiers (DIDs). Provides access to real-time data, configuration parameters, and diagnostic information.">>
    [] sid = 35 ->   \* 0x23
       <<"Reads data from ECU memory by specifying memory address and size. Direct memory access for diagnostic purposes.">>
    [] sid = 36 ->   \* 0x24
       <<"Reads scaling information for data identifiers to convert raw values to physical units.">>
    [] sid = 39 ->   \* 0x27
       <<"Provides security access to protected diagnostic functions. Uses seed-key mechanism for authentication.">>
    [] sid = 40 ->   \* 0x28
       <<"Controls communication with ECU. Can disable/enable normal communication and network management.">>
    [] sid = 42 ->   \* 0x2A
       <<"Reads data with periodic transmission. Sets up cyclic data transmission from ECU to tester.">>
    [] sid = 44 ->   \* 0x2C
       <<"Dynamically defines data identifiers by memory address. Creates custom DIDs for specific memory locations.">>
    [] sid = 46 ->   \* 0x2E
       <<"Writes data to ECU memory using Data Identifiers (DIDs). Allows modification of configuration parameters and calibration data.">>
    [] sid = 47 ->   \* 0x2F
       <<"Controls input/output operations. Can force specific states on ECU inputs and outputs for testing purposes.">>
    [] sid = 49 ->   \* 0x31
       <<"Executes diagnostic routines. Starts, stops, and requests results from various diagnostic procedures.">>
    [] sid = 52 ->   \* 0x34
       <<"Initiates download of data to ECU memory. Requests memory allocation for data transfer operations.">>
    [] sid = 53 ->   \* 0x35
       <<"Initiates upload of data from ECU memory. Requests memory allocation for data retrieval operations.">>
    [] sid = 54 ->   \* 0x36
       <<"Transfers data blocks to ECU during download operations. Continues data transfer started with RequestDownload.">>
    [] sid = 55 ->   \* 0x37
       <<"Transfers data blocks from ECU during upload operations. Continues data transfer started with RequestUpload.">>
    [] sid = 56 ->   \* 0x38
       <<"Completes data transfer operations. Finalizes download/upload and verifies data integrity.">>
    [] sid = 61 ->   \* 0x3D
       <<"Writes data to ECU memory by specifying memory address and size. Direct memory write access for diagnostic purposes.">>
    [] sid = 62 ->   \* 0x3E
       <<"Maintains active diagnostic session. Prevents timeout of current diagnostic session through periodic transmission.">>
    [] sid = 131 ->   \* 0x83
       <<"Provides access to diagnostic data related to communication and network management.">>
    [] sid = 132 ->   \* 0x84
       <<"Controls network management and communication flow within the vehicle network.">>
    [] sid = 133 ->   \* 0x85
       <<"Manages diagnostic communication timing parameters and session behavior.">>
    [] sid = 134 ->   \* 0x86
       <<"Controls response behavior for diagnostic requests in functional and physical addressing modes.">>
    [] sid = 135 ->   \* 0x87
       <<"Provides access to vehicle identification and diagnostic capabilities information.">>

\* the if / elif chain over the service name, in its order: the fragment tested
\* and the text returned
NameFragments ==
  <<
     [frag |-> "DiagnosticSessionControl",
      text |-> uds_descriptions(16)],
     [frag |-> "ECUReset",
      text |-> uds_descriptions(17)],
     [frag |-> "ClearDiagnosticInformation",
      text |-> uds_descriptions(20)],
     [frag |-> "ReadDTCInformation",
      text |-> uds_descriptions(25)],
     [frag |-> "ReadDataByIdentifier",
      text |-> uds_descriptions(34)],
     [frag |-> "ReadMemoryByAddress",
      text |-> uds_descriptions(35)],
     [frag |-> "SecurityAccess",
      text |-> uds_descriptions(39)],
     [frag |-> "CommunicationControl",
      text |-> uds_descriptions(40)],
     [frag |-> "WriteDataByIdentifier",
      text |-> uds_descriptions(46)],
     [frag |-> "InputOutputControlByIdentifier",
      text |-> uds_descriptions(47)],
     [frag |-> "RoutineControl",
      text |-> uds_descriptions(49)],
     [frag |-> "RequestDownload",
      text |-> uds_descriptions(52)],
     [frag |-> "RequestUpload",
      text |-> uds_descriptions(53)],
     [frag |-> "TransferData",
      text |-> <<"Transfers data blocks between tester and ECU during download/upload operations">>],
     [frag |-> "RequestTransferExit",
      text |-> uds_descriptions(56)],
     [frag |-> "WriteMemoryByAddress",
      text |-> uds_descriptions(61)],
     [frag |-> "TesterPresent",
      text |-> uds_descriptions(62)]
  >>

\* fragment in service_name
Contains(name, frag) == \E i \in 1..Len(name) : name[i] = frag

\* A variant of _get_enhanced_service_description that tries the service name
\* before the table.
_get_enhanced_service_description_name_first(service_name, uds_service_id) ==
  LET hits == {i \in 1..Len(NameFragments) :
                 Contains(service_name, NameFragments[i].frag)}
  IN IF Truthy(service_name) /\ hits # {}
     THEN NameFragments[CHOOSE i \in hits : \A j \in hits : i <= j].text
     ELSE IF uds_service_id # Absent /\ uds_service_id[1] \in UdsDescriptionIds
     THEN uds_descriptions(uds_service_id[1])
     ELSE <<"UDS diagnostic service providing ">> \o service_name
          \o <<" functionality according to ISO 14229-1 specification.">>

\* uds_service_id is an optional int: <<>> for None, <<n>> otherwise
_get_enhanced_service_description(service_name, uds_service_id) ==
  IF uds_service_id # Absent /\ uds_service_id[1] \in UdsDescriptionIds
  THEN uds_descriptions(uds_service_id[1])
  ELSE LET hits == {i \in 1..Len(NameFragments) :
                      Contains(service_name, NameFragments[i].frag)}
       IN IF Truthy(service_name) /\ hits # {}
          THEN NameFragments[CHOOSE i \in hits : \A j \in hits : i <= j].text
          ELSE <<"UDS diagnostic service providing ">> \o service_name
               \o <<" functionality according to ISO 14229-1 specification.">>
----------------------------------------------------------------------------
\* Service extraction

\* all component elements under the service element, in document order
ServiceComps(e) == Concat([i \in 1..Len(e.children) |-> e.children[i].comps])

\* service_elem.find(".//CONSTCOMP[@spec='sid']")
FindSidComponent(e) ==
  LET cs == ServiceComps(e)
      hits == {i \in 1..Len(cs) : cs[i].tag = "CONSTCOMP" /\ cs[i].spec = <<"sid">>}
  IN IF hits = {} THEN Absent ELSE Present(cs[CHOOSE i \in hits : \A j \in hits : i <= j])

\* service_elem.find(tag) for tag REQ / POS / NEG, parsed when found
FindMessage(e, tag) ==
  LET hits == {i \in 1..Len(e.children) : e.children[i].tag = tag}
  IN IF hits = {} THEN Absent
     ELSE Present(_parse_service_message(
                    e.children[CHOOSE i \in hits : \A j \in hits : i <= j]))

\* Lines 319-328: the optional int read from the sid component
ExtractUdsServiceId(e) ==
  LET sid_component == FindSidComponent(e)
      sid_value == IF sid_component = Absent THEN <<>>
                   ELSE AttrOrEmpty(sid_component[1].v)
  IN IF sid_component # Absent /\ sid_value # <<>> /\ PyInt(sid_value).ok
     THEN Present(PyInt(sid_value).val)
     ELSE Absent

\* Lines 306-317: [raised, value].  At line 315 the local uds_service_id is read
\* as a call argument; its only assignment is at line 320, so the local is
\* unbound there and the read raises UnboundLocalError before the call is made.
ResolveDescription(e, name_elem) ==
  LET uds_service_id_bound == FALSE
      uds_service_id == Absent
  IN IF e.desc_tuv # Absent /\ Truthy(e.desc_tuv[1].text)
     THEN [raised |-> FALSE, value |-> e.desc_tuv[1].text]
     ELSE IF name_elem # Absent /\ Truthy(name_elem[1].text)
     THEN IF uds_service_id_bound
          THEN [raised |-> FALSE,
                value |-> _get_enhanced_service_description(name_elem[1].text,
                                                            uds_service_id)]
          ELSE [raised |-> TRUE, value |-> <<>>]
     ELSE [raised |-> FALSE, value |-> <<"UDS diagnostic service">>]

_parse_protocol_service(e) ==
  LET name_elem == FirstNameElem(e)
      description == ResolveDescription(e, name_elem)
  IN IF description.raised THEN NoneRec     \* caught at line 371
     ELSE [id |-> AttrOrEmpty(e.id),
           name |-> IF name_elem # Absent THEN name_elem[1].text
                    ELSE <<"Unknown Service">>,
           qualifier |-> QualOr(e, <<>>),
           description |-> description.value,
           uds_service_id |-> ExtractUdsServiceId(e),
           func |-> (e.func = <<"1">>),
           phys |-> (e.phys = <<"1">>),
           multiple_response |-> (e.mresp = <<"1">>),
           response_on_physical |-> (e.respOnPhys = <<"1">>),
           response_on_functional |-> (e.respOnFunc = <<"1">>),
           request |-> FindMessage(e, "REQ"),
           positive_response |-> FindMessage(e, "POS"),
           negative_response |-> FindMessage(e, "NEG")]
----------------------------------------------------------------------------
\* Input elements

\* texts of the n attribute of a DID
NTexts ==
  {<<"6", "5", "1", "6", "8">>,
   <<"0">>,
   <<"2", "5", "5">>,
   <<"6", "1", "8", "4", "2">>,
   <<"0", "0", "0", "1", "7">>,
   <<" ", "1", "2", " ">>,
   <<"+", "7">>,
   <<"-", "1">>,
   <<"7", "0", "0", "0", "0">>,
   <<"1", "_", "0">>,
   <<>>,
   <<"a", "b", "c">>,
   <<"0", "x", "1", "0">>,
   <<"1", "2", "a">>,
   <<"1", "_", "_", "0">>,
   <<"F", "E", "9", "0">>}

DataObjElem(name_tuv, qual) ==
  [id |-> <<"obj">>, name_tuv |-> name_tuv, tuvs |-> name_tuv, qual |-> qual,
   dtref |-> <<"dt_u8">>, spec |-> None]

DataObjElems ==
  <<DataObjElem(Present(TUV(None, <<"Year">>)), Present(<<"Year_Q">>)),
    DataObjElem(Absent, Absent)>>

VinName == Present(TUV(None, <<"VIN">>))

\* the TUV descendants of a STRUCTURE child: those of its data objects
StructureTuvs(structure) ==
  IF structure = Absent THEN <<>>
  ELSE Concat([i \in 1..Len(structure[1]) |-> structure[1][i].tuvs])

\* a DID element; its TUV descendants are those of NAME, of DESC, the others,
\* then those under STRUCTURE; stray lists its DATAOBJ descendants that are not
\* under the STRUCTURE child
DidElem(n, name_tuv, desc_tuv, other_tuvs, qual, structure) ==
  [id |-> <<"did">>, n |-> n,
   name_tuv |-> name_tuv,
   tuvs |-> name_tuv \o desc_tuv \o other_tuvs \o StructureTuvs(structure),
   qual |-> qual,
   desc_tuv |-> desc_tuv,
   desc_tuvs |-> desc_tuv,
   structure |-> structure,
   stray |-> <<>>]

\* a DATAOBJ element placed in a DID outside its STRUCTURE child
StrayObjElem ==
  [DataObjElem(Present(TUV(None, <<"Stray">>)), Absent) EXCEPT !.id = <<"stray">>]

\* a DID element with NAME/TUV, a DATAOBJ after its STRUCTURE child (if any),
\* and that DATAOBJ's TUV among its TUV descendants
DidElemStray(n, structure) ==
  [DidElem(n, VinName, Absent, <<>>, Absent, structure) EXCEPT
     !.stray = <<StrayObjElem>>,
     !.tuvs = @ \o StrayObjElem.tuvs]

LocalizedTuvs == <<TUV(<<"de-DE">>, <<"Dienst">>), TUV(<<"en-US">>, <<"ECUReset">>)>>

\* DIDs over every n text, and over the shapes of name, description and
\* structure for a well-formed and a malformed n
DidElems ==
  {DidElem(n, VinName, Absent, <<>>, Present(<<"VIN_Q">>), Absent) :
     n \in NTexts \cup {None}}
  \cup
  {DidElem(n, nm[1], ds, nm[2], Absent, st) :
     n \in {<<"6", "5", "1", "6", "8">>, <<"a", "b", "c">>},
     nm \in {<<Absent, <<>>>>, <<Absent, LocalizedTuvs>>, <<Present(TUV(None, None)), <<>>>>},
     ds \in {Absent, Present(TUV(None, <<"Vehicle", " ", "number">>))},
     st \in {Absent, Present(<<>>), Present(DataObjElems)}}
  \cup
  {DidElemStray(<<"2", "5", "5">>, st) : st \in {Absent, Present(<<>>), Present(DataObjElems)}}

CoreDidElems ==
  {DidElem(<<"6", "5", "1", "6", "8">>, VinName, Absent, <<>>, Present(<<"VIN_Q">>), Absent),
   DidElem(<<"a", "b", "c">>, VinName, Absent, <<>>, Absent, Absent),
   DidElemStray(<<"2", "5", "5">>, Present(DataObjElems))}

\* a component element that is a child of its message element (depth 1)
CompElem(tag, spec, v) ==
  [tag |-> tag, id |-> <<"comp">>, name_tuv |-> Absent, tuvs |-> <<>>,
   qual |-> Absent, must |-> <<"1">>, spec |-> spec, bl |-> <<"8">>, v |-> v,
   dtref |-> None, depth |-> 1]

\* a component element nested in another element under the message (depth 2)
NestedCompElem(tag, spec, v) == [CompElem(tag, spec, v) EXCEPT !.depth = 2]

MsgElem(tag, comps) ==
  [tag |-> tag, id |-> <<"msg">>, name_tuv |-> Absent, tuvs |-> <<>>,
   qual |-> Absent, comps |-> comps]

Sid(v) == CompElem("CONSTCOMP", <<"sid">>, v)

\* the message children of a service element, in document order
ChildrenKinds ==
  {<<MsgElem("REQ", <<Sid(<<"1", "6">>)>>)>>,
   <<MsgElem("REQ", <<Sid(<<"a", "b", "c">>)>>)>>,
   <<MsgElem("REQ", <<Sid(<<"0", "x", "1", "0">>)>>)>>,
   <<MsgElem("REQ", <<Sid(<<>>)>>)>>,
   <<MsgElem("REQ", <<Sid(None)>>)>>,
   <<MsgElem("REQ", <<Sid(<<"3", "4">>),
                      CompElem("SIMPLEPROXYCOMP", <<"data">>, None),
                      CompElem("STATICCOMP", <<"did">>, None)>>),
     MsgElem("POS", <<Sid(<<"9", "8">>)>>),
     MsgElem("NEG", <<Sid(<<"1", "2", "7">>)>>)>>,
   <<MsgElem("POS", <<Sid(<<"8", "0">>)>>), MsgElem("REQ", <<Sid(<<"1", "6">>)>>)>>,
   <<MsgElem("POS", <<Sid(<<"8", "0">>)>>)>>,
   <<MsgElem("REQ", <<CompElem("CONSTCOMP", <<"sub">>, <<"1">>), Sid(<<" ", "1", "7">>)>>)>>,
   <<MsgElem("REQ", <<CompElem("STATICCOMP", <<"sid">>, <<"1", "6">>)>>)>>,
   <<MsgElem("POS", <<CompElem("SIMPLEPROXYCOMP", <<"data">>, None),
                      CompElem("STATICCOMP", <<"did">>, None),
                      NestedCompElem("CONSTCOMP", <<"sid">>, <<"9", "8">>),
                      NestedCompElem("STATICCOMP", <<"len">>, None),
                      CompElem("CONSTCOMP", <<"sub">>, <<"1">>)>>)>>,
   <<>>}

\* a service element; its TUV descendants are those of NAME, of DESC, then the others
SvcElem(name_tuv, desc_tuv, other_tuvs, flag, children) ==
  [id |-> <<"svc">>, func |-> flag, phys |-> flag, mresp |-> None,
   respOnPhys |-> flag, respOnFunc |-> <<"0">>,
   name_tuv |-> name_tuv,
   tuvs |-> name_tuv \o desc_tuv \o other_tuvs,
   qual |-> IF name_tuv = Absent THEN Absent ELSE Present(<<"SVC_Q">>),
   desc_tuv |-> desc_tuv,
   children |-> children]

\* NAME/TUV and the other TUV descendants
NameKinds ==
  {<<Present(TUV(None, <<"DiagnosticSessionControl">>)), <<>>>>,
   <<Present(TUV(None, <<"Vendor", " ", "Service">>)), <<>>>>,
   <<Present(TUV(None, None)), <<>>>>,
   <<Absent, <<>>>>,
   <<Absent, LocalizedTuvs>>}

\* DESC/TUV
DescKinds ==
  {Absent, Present(TUV(None, <<"Switches", " ", "session">>)), Present(TUV(None, None))}

SvcElems ==
  {SvcElem(nm[1], ds, nm[2], <<"1">>, ch) :
     nm \in NameKinds, ds \in DescKinds, ch \in ChildrenKinds}

SessionControlChildren == <<MsgElem("REQ", <<Sid(<<"1", "6">>)>>)>>

CoreSvcElems ==
  {SvcElem(Present(TUV(None, <<"Session">>)),
           Present(TUV(None, <<"Switches", " ", "session">>)), <<>>, <<"1">>,
           SessionControlChildren),
   SvcElem(Present(TUV(None, <<"DiagnosticSessionControl">>)), Absent, <<>>, None,
           SessionControlChildren),
   SvcElem(Absent, Absent, <<>>, None, <<>>)}

\* what ET.parse returns; wellformed = FALSE stands for an unreadable or
\* malformed file
File(ecudoc, dids, services) ==
  [wellformed |-> TRUE, ecudoc |-> ecudoc, dids |-> dids, services |-> services]

BadFile == [wellformed |-> FALSE, ecudoc |-> Absent, dids |-> Absent, services |-> Absent]

Files ==
  {File(Absent, Present(<<e>>), Absent) : e \in DidElems}
  \cup {File(Present(<<"ACME">>), Absent, Present(<<e>>)) : e \in SvcElems}
  \cup {File(Present(None), Present(ds), Present(ss)) :
          ds \in SeqsUpTo(CoreDidElems, MaxFileDids),
          ss \in SeqsUpTo(CoreSvcElems, MaxFileSvcs)}
  \cup {File(Absent, Absent, Absent), BadFile}

\* the files parsed by a second and later call on the same instance
ReuseFiles ==
  {File(Absent, Present(<<e>>), Present(<<s>>)) :
     e \in {d \in CoreDidElems : d.n # <<"a", "b", "c">>},
     s \in {x \in CoreSvcElems : x.desc_tuv # Absent}}
  \cup {File(Absent, Absent, Absent), BadFile}

----------------------------------------------------------------------------
\* EnhancedCDDParser

\* CDDDocument()
NewDocument == [manufacturer |-> <<>>, protocol_services |-> <<>>, dids |-> <<>>]

\* _extract_document_info on a document
_extract_document_info(doc, tree) ==
  IF tree.ecudoc # Absent
  THEN [doc EXCEPT !.manufacturer =
          IF tree.ecudoc[1] = None THEN <<"Unknown">> ELSE tree.ecudoc[1]]
  ELSE doc

ParserIdle ==
  /\ document = NewDocument /\ pc = "idle" /\ root = NoneRec /\ idx = 0
  /\ elem = NoneRec /\ parsed = NoneRec /\ calls = 0

MapperIdle ==
  /\ data = NoneRec /\ mpc = "idle" /\ midx = 0 /\ src_rec = NoneRec
  /\ odx_rec = NoneRec /\ odx_services = <<>> /\ odx_dids = <<>>

RerunIdle == run_file = NoneRec /\ run_first = NoneRec

EnrichIdle ==
  /\ service_name_arg = <<>> /\ uds_service_id_arg = Absent
  /\ description_ret = <<>> /\ epc = "idle"

\* no upload_file request is being handled
NoUpload == [pc |-> "idle", file |-> NoneRec, idx |-> 0, results |-> NoneRec]

UploadIdle ==
  /\ parsers = [r \in Requests |-> NoneRec]
  /\ uploads = [r \in Requests |-> NoUpload]

Init == ParserIdle /\ MapperIdle /\ RerunIdle /\ EnrichIdle /\ UploadIdle

\* A variant of parse_file that empties the document when ET.parse fails.
parse_file_clearing(f) ==
  /\ pc = "idle" /\ calls < MaxParses
  /\ f \in (IF calls = 0 THEN Files ELSE ReuseFiles)
  /\ calls' = calls + 1
  /\ elem' = NoneRec /\ parsed' = NoneRec
  /\ IF f.wellformed
     THEN /\ root' = f
          /\ document' = _extract_document_info(document, f)
          /\ pc' = "dids" /\ idx' = 1
     ELSE /\ pc' = "raised" /\ document' = NewDocument
          /\ UNCHANGED <<root, idx>>
  /\ UNCHANGED mapper_vars
  /\ UNCHANGED rerun_vars
  /\ UNCHANGED enrich_vars
  /\ UNCHANGED upload_vars

\* A variant of parse_file that starts every call from an empty document.
parse_file_fresh(f) ==
  /\ pc = "idle" /\ calls < MaxParses
  /\ f \in (IF calls = 0 THEN Files ELSE ReuseFiles)
  /\ calls' = calls + 1
  /\ elem' = NoneRec /\ parsed' = NoneRec
  /\ IF f.wellformed
     THEN /\ root' = f
          /\ document' = _extract_document_info(NewDocument, f)
          /\ pc' = "dids" /\ idx' = 1
     ELSE /\ pc' = "raised"
          /\ UNCHANGED <<root, document, idx>>
  /\ UNCHANGED mapper_vars
  /\ UNCHANGED rerun_vars
  /\ UNCHANGED enrich_vars
  /\ UNCHANGED upload_vars

\* parse_file up to the call of _extract_dids: ET.parse, _extract_document_info,
\* _extract_communication_params (which only replaces communication_params by a
\* fresh empty record)
parse_file(f) ==
  /\ pc = "idle" /\ calls < MaxParses
  /\ f \in (IF calls = 0 THEN Files ELSE ReuseFiles)
  /\ calls' = calls + 1
  /\ elem' = NoneRec /\ parsed' = NoneRec
  /\ IF f.wellformed
     THEN /\ root' = f
          /\ document' = _extract_document_info(document, f)
          /\ pc' = "dids" /\ idx' = 1
     ELSE /\ pc' = "raised"
          /\ UNCHANGED <<root, document, idx>>
  /\ UNCHANGED mapper_vars
  /\ UNCHANGED rerun_vars
  /\ UNCHANGED enrich_vars
  /\ UNCHANGED upload_vars

\* A variant of _extract_dids_next in which a DID that fails to parse ends
\* parse_file with the exception.
_extract_dids_next_abort ==
  /\ pc = "dids" /\ root.dids # Absent /\ idx <= Len(root.dids[1])
  /\ elem' = root.dids[1][idx]
  /\ parsed' = _parse_did(elem')
  /\ IF parsed' = NoneRec
     THEN pc' = "raised" /\ UNCHANGED <<document, idx>>
     ELSE /\ document' = [document EXCEPT !.dids = Append(@, parsed')]
          /\ idx' = idx + 1 /\ UNCHANGED pc
  /\ UNCHANGED <<root, calls>>
  /\ UNCHANGED mapper_vars
  /\ UNCHANGED rerun_vars
  /\ UNCHANGED enrich_vars
  /\ UNCHANGED upload_vars

\* one iteration of the loop of _extract_dids
_extract_dids_next ==
  /\ pc = "dids" /\ root.dids # Absent /\ idx <= Len(root.dids[1])
  /\ elem' = root.dids[1][idx]
  /\ parsed' = _parse_did(elem')
  /\ document' = IF parsed' # NoneRec
                 THEN [document EXCEPT !.dids = Append(@, parsed')]
                 ELSE document
  /\ idx' = idx + 1
  /\ UNCHANGED <<pc, root, calls>>
  /\ UNCHANGED mapper_vars
  /\ UNCHANGED rerun_vars
  /\ UNCHANGED enrich_vars
  /\ UNCHANGED upload_vars

\* A variant of _extract_dids_return in which a missing DIDS section ends
\* parse_file with an exception.
_extract_dids_return_fatal ==
  /\ pc = "dids"
  /\ IF root.dids = Absent THEN TRUE ELSE idx > Len(root.dids[1])
  /\ IF root.dids = Absent
     THEN pc' = "raised" /\ idx' = 0
     ELSE pc' = "services" /\ idx' = 1
  /\ elem' = NoneRec /\ parsed' = NoneRec
  /\ UNCHANGED <<document, root, calls>>
  /\ UNCHANGED mapper_vars
  /\ UNCHANGED rerun_vars
  /\ UNCHANGED enrich_vars
  /\ UNCHANGED upload_vars

\* _extract_dids returns: no DIDS section, or the loop is over
_extract_dids_return ==
  /\ pc = "dids"
  /\ IF root.dids = Absent THEN TRUE ELSE idx > Len(root.dids[1])
  /\ pc' = "services" /\ idx' = 1
  /\ elem' = NoneRec /\ parsed' = NoneRec
  /\ UNCHANGED <<document, root, calls>>
  /\ UNCHANGED mapper_vars
  /\ UNCHANGED rerun_vars
  /\ UNCHANGED enrich_vars
  /\ UNCHANGED upload_vars

\* one iteration of the loop of _extract_protocol_services
_extract_protocol_services_next ==
  /\ pc = "services" /\ root.services # Absent /\ idx <= Len(root.services[1])
  /\ elem' = root.services[1][idx]
  /\ parsed' = _parse_protocol_service(elem')
  /\ document' = IF parsed' # NoneRec
                 THEN [document EXCEPT !.protocol_services = Append(@, parsed')]
                 ELSE document
  /\ idx' = idx + 1
  /\ UNCHANGED <<pc, root, calls>>
  /\ UNCHANGED mapper_vars
  /\ UNCHANGED rerun_vars
  /\ UNCHANGED enrich_vars
  /\ UNCHANGED upload_vars

\* _extract_protocol_services returns and parse_file returns self.document
_extract_protocol_services_return ==
  /\ pc = "services"
  /\ IF root.services = Absent THEN TRUE ELSE idx > Len(root.services[1])
  /\ pc' = "returned" /\ idx' = 0
  /\ elem' = NoneRec /\ parsed' = NoneRec
  /\ UNCHANGED <<document, root, calls>>
  /\ UNCHANGED mapper_vars
  /\ UNCHANGED rerun_vars
  /\ UNCHANGED enrich_vars
  /\ UNCHANGED upload_vars

\* the caller has the document, or the exception, and the instance is free again
parse_file_done ==
  /\ pc \in {"returned", "raised"}
  /\ pc' = "idle" /\ root' = NoneRec
  /\ UNCHANGED <<document, idx, elem, parsed, calls>>
  /\ UNCHANGED mapper_vars
  /\ UNCHANGED rerun_vars
  /\ UNCHANGED enrich_vars
  /\ UNCHANGED upload_vars

Next ==
  \/ \E f \in Files \cup ReuseFiles : parse_file(f)
  \/ _extract_dids_next
  \/ _extract_dids_return
  \/ _extract_protocol_services_next
  \/ _extract_protocol_services_return
  \/ parse_file_done

Spec == Init /\ [][Next]_vars
----------------------------------------------------------------------------
\* The extraction run twice on one input, each run with its own instance

\* A variant of EnhancedCDDParser in which the new instance holds the document
\* of the instance before it.
EnhancedCDDParser_shared == document

\* EnhancedCDDParser(): self.document of a new instance
EnhancedCDDParser == NewDocument

\* the input file of the two runs is fixed
same_input(f) ==
  /\ pc = "idle" /\ calls = 0 /\ run_file = NoneRec
  /\ run_file' = f
  /\ UNCHANGED run_first
  /\ UNCHANGED parser_vars
  /\ UNCHANGED mapper_vars
  /\ UNCHANGED enrich_vars
  /\ UNCHANGED upload_vars

\* a run calls parse_file on the input
parse_file_run == run_file # NoneRec /\ parse_file(run_file)

\* the first run is over: its caller keeps the outcome, and the second run
\* constructs its own parser
second_instance ==
  /\ pc \in {"returned", "raised"} /\ run_file # NoneRec /\ run_first = NoneRec
  /\ run_first' = [document |-> document, outcome |-> pc]
  /\ document' = EnhancedCDDParser
  /\ pc' = "idle" /\ calls' = 0 /\ root' = NoneRec /\ idx' = 0
  /\ elem' = NoneRec /\ parsed' = NoneRec
  /\ UNCHANGED run_file
  /\ UNCHANGED mapper_vars
  /\ UNCHANGED enrich_vars
  /\ UNCHANGED upload_vars

\* both runs are over and both instances are dropped
rerun_done ==
  /\ pc \in {"returned", "raised"} /\ run_first # NoneRec
  /\ document' = NewDocument
  /\ pc' = "idle" /\ calls' = 0 /\ root' = NoneRec /\ idx' = 0
  /\ elem' = NoneRec /\ parsed' = NoneRec
  /\ run_file' = NoneRec /\ run_first' = NoneRec
  /\ UNCHANGED mapper_vars
  /\ UNCHANGED enrich_vars
  /\ UNCHANGED upload_vars

NextTwice ==
  \/ \E f \in Files : same_input(f)
  \/ parse_file_run
  \/ _extract_dids_next
  \/ _extract_dids_return
  \/ _extract_protocol_services_next
  \/ _extract_protocol_services_return
  \/ second_instance
  \/ rerun_done

SpecTwice == Init /\ [][NextTwice]_vars
----------------------------------------------------------------------------
\* Claims about the parser

\* a DID element was just handed to _parse_did, which returned parsed
DidParsed == pc = "dids" /\ elem # NoneRec
\* a service element was just handed to _parse_protocol_service
ServiceParsed == pc = "services" /\ elem # NoneRec

RECURSIVE DecString(_)
\* str(n) for n >= 0
DecString(n) ==
  IF n < 10 THEN <<DecChars[n + 1]>>
  ELSE Append(DecString(n \div 10), DecChars[(n % 10) + 1])

RECURSIVE DropLeadingZeros(_)
DropLeadingZeros(s) ==
  IF Len(s) > 1 /\ s[1] = "0" THEN DropLeadingZeros(Tail(s)) ELSE s

\* the decimal text t denotes the integer k: apart from surrounding blanks, a
\* sign, digit-group underscores and leading zeros, t is k written in decimal
DenotesDecimal(t, k) ==
  LET s == strip(t)
      negative == s # <<>> /\ s[1] = "-"
      body == IF s # <<>> /\ (s[1] = "-" \/ s[1] = "+") THEN Tail(s) ELSE s
      digits == FilterSeq(body, {i \in 1..Len(body) : body[i] # "_"})
  IN /\ digits # <<>>
     /\ DropLeadingZeros(digits) = DecString(IF k < 0 THEN 0 - k ELSE k)
     /\ (k < 0 => negative) /\ (k > 0 => ~negative)

IsUpperHex(s) == \A i \in 1..Len(s) : \E d \in 1..16 : HexUpper[d] = s[i]

\* body is k >= 0 in uppercase hex, zero-padded to width digits and no further
IsPaddedHex(body, k, width) ==
  /\ Len(body) >= width
  /\ IsUpperHex(body)
  /\ DigitsValue(body, 16) = k
  /\ (Len(body) > width => body[1] # "0")

\* h is "0x" followed by format(k, "04X")
IsHex04X(h, k) ==
  /\ Len(h) >= 6 /\ h[1] = "0" /\ h[2] = "x"
  /\ LET body == SubSeq(h, 3, Len(h))
     IN IF k >= 0 THEN IsPaddedHex(body, k, 4)
        ELSE body[1] = "-" /\ IsPaddedHex(Tail(body), 0 - k, 3)

\* C1: every DID record _parse_did returns has number = the integer its n
\* attribute denotes and number_hex = "0x" + number in uppercase hex zero-padded
\* to 4 digits, and so has every DID of document.dids; n = "65168" gives "0xFE90".
C1_NumberHexDerived ==
  /\ (DidParsed /\ parsed # NoneRec) =>
       /\ elem.n # None => DenotesDecimal(elem.n, parsed.number)
       /\ IsHex04X(parsed.number_hex, parsed.number)
       /\ elem.n = <<"6", "5", "1", "6", "8">> =>
            parsed.number_hex = <<"0", "x", "F", "E", "9", "0">>
  /\ \A i \in 1..Len(document.dids) :
       IsHex04X(document.dids[i].number_hex, document.dids[i].number)

\* C1 witness: the DID n = "65168" was parsed and appended with "0xFE90"
C1_Witness ==
  /\ DidParsed /\ parsed # NoneRec
  /\ elem.n = <<"6", "5", "1", "6", "8">>
  /\ parsed.number = 65168
  /\ parsed.number_hex = <<"0", "x", "F", "E", "9", "0">>
  /\ document.dids # <<>> /\ document.dids[Len(document.dids)] = parsed

\* the first REQ child of a service element, if any
RequestElem(e) ==
  LET hits == {i \in 1..Len(e.children) : e.children[i].tag = "REQ"}
  IN IF hits = {} THEN Absent
     ELSE Present(e.children[CHOOSE i \in hits : \A j \in hits : i <= j])

\* the request message's only component is a CONSTCOMP tagged sid
OnlySidInRequest(e) ==
  /\ RequestElem(e) # Absent
  /\ Len(RequestElem(e)[1].comps) = 1
  /\ RequestElem(e)[1].comps[1].tag = "CONSTCOMP"
  /\ RequestElem(e)[1].comps[1].spec = <<"sid">>

\* C2: a service whose request's only component is a sid-tagged CONSTCOMP with a
\* decimal integer v, whatever its NAME / DESC children, yields a service record
\* with uds_service_id = int(v); v = "16" yields 16.
C2_SidFromRequestConstant ==
  (/\ ServiceParsed /\ OnlySidInRequest(elem)
   /\ RequestElem(elem)[1].comps[1].v # None
   /\ \E k \in 0..255 : DenotesDecimal(RequestElem(elem)[1].comps[1].v, k))
  => /\ parsed # NoneRec
     /\ parsed.uds_service_id # Absent
     /\ DenotesDecimal(RequestElem(elem)[1].comps[1].v, parsed.uds_service_id[1])
     /\ RequestElem(elem)[1].comps[1].v = <<"1", "6">> => parsed.uds_service_id = <<16>>

\* the text of the name element the service extractor locates, None if there is none
LocatedNameText(e) ==
  IF FirstNameElem(e) = Absent THEN None ELSE FirstNameElem(e)[1].text

\* C3: the description of a service record is the DESC/TUV text if present and
\* non-empty, otherwise the enrichment result for the name text if that is
\* present, otherwise "UDS diagnostic service"; with no DESC text and the name
\* "DiagnosticSessionControl" it is the canonical 0x10 description.
C3_DescriptionTiers ==
  ServiceParsed =>
    /\ parsed # NoneRec
    /\ IF elem.desc_tuv # Absent /\ Truthy(elem.desc_tuv[1].text)
       THEN parsed.description = elem.desc_tuv[1].text
       ELSE IF Truthy(LocatedNameText(elem))
       THEN /\ \E sid \in {Absent, ExtractUdsServiceId(elem)} :
                 parsed.description =
                   _get_enhanced_service_description(LocatedNameText(elem), sid)
            /\ LocatedNameText(elem) = <<"DiagnosticSessionControl">> =>
                 parsed.description = uds_descriptions(16)
       ELSE parsed.description = <<"UDS diagnostic service">>

\* C4: a service whose sid-tagged CONSTCOMP has a non-numeric v yields a service
\* record, not None, with uds_service_id unset and its id, name, qualifier, flags
\* and messages populated as for a well-formed service.
C4_NonNumericSidTolerated ==
  (/\ ServiceParsed /\ FindSidComponent(elem) # Absent
   /\ FindSidComponent(elem)[1].v # None
   /\ \A k \in 0..255 : ~DenotesDecimal(FindSidComponent(elem)[1].v, k))
  => /\ parsed # NoneRec
     /\ parsed.uds_service_id = Absent
     /\ parsed.id = AttrOrEmpty(elem.id)
     /\ parsed.name = (IF LocatedNameText(elem) = None /\ FirstNameElem(elem) = Absent
                       THEN <<"Unknown Service">> ELSE LocatedNameText(elem))
     /\ parsed.func = (elem.func = <<"1">>)
     /\ (parsed.request # Absent) = (RequestElem(elem) # Absent)
----------------------------------------------------------------------------
\* CDDToODXConverter

\* self.uds_services, in the order of the literal
uds_services ==
  <<
    [key |-> <<"0", "x", "1", "0">>, name |-> <<"DiagnosticSessionControl">>],
    [key |-> <<"0", "x", "1", "1">>, name |-> <<"ECUReset">>],
    [key |-> <<"0", "x", "1", "4">>, name |-> <<"ClearDiagnosticInformation">>],
    [key |-> <<"0", "x", "1", "9">>, name |-> <<"ReadDTCInformation">>],
    [key |-> <<"0", "x", "2", "2">>, name |-> <<"ReadDataByIdentifier">>],
    [key |-> <<"0", "x", "2", "3">>, name |-> <<"ReadMemoryByAddress">>],
    [key |-> <<"0", "x", "2", "4">>, name |-> <<"ReadScalingDataByIdentifier">>],
    [key |-> <<"0", "x", "2", "7">>, name |-> <<"SecurityAccess">>],
    [key |-> <<"0", "x", "2", "8">>, name |-> <<"CommunicationControl">>],
    [key |-> <<"0", "x", "2", "A">>, name |-> <<"ReadDataByPeriodicIdentifier">>],
    [key |-> <<"0", "x", "2", "C">>, name |-> <<"DynamicallyDefineDataIdentifier">>],
    [key |-> <<"0", "x", "2", "E">>, name |-> <<"WriteDataByIdentifier">>],
    [key |-> <<"0", "x", "2", "F">>, name |-> <<"InputOutputControlByIdentifier">>],
    [key |-> <<"0", "x", "3", "1">>, name |-> <<"RoutineControl">>],
    [key |-> <<"0", "x", "3", "4">>, name |-> <<"RequestDownload">>],
    [key |-> <<"0", "x", "3", "5">>, name |-> <<"RequestUpload">>],
    [key |-> <<"0", "x", "3", "6">>, name |-> <<"TransferData">>],
    [key |-> <<"0", "x", "3", "7">>, name |-> <<"RequestTransferExit">>],
    [key |-> <<"0", "x", "3", "D">>, name |-> <<"WriteMemoryByAddress">>],
    [key |-> <<"0", "x", "3", "E">>, name |-> <<"TesterPresent">>],
    [key |-> <<"0", "x", "8", "3">>, name |-> <<"AccessTimingParameter">>],
    [key |-> <<"0", "x", "8", "4">>, name |-> <<"SecuredDataTransmission">>],
    [key |-> <<"0", "x", "8", "5">>, name |-> <<"ControlDTCSetting">>],
    [key |-> <<"0", "x", "8", "6">>, name |-> <<"ResponseOnEvent">>],
    [key |-> <<"0", "x", "8", "7">>, name |-> <<"LinkControl">>]
  >>

\* value.replace('0x', ''): every occurrence removed, left to right
RECURSIVE replace_0x(_)
replace_0x(s) ==
  IF Len(s) < 2 THEN s
  ELSE IF s[1] = "0" /\ s[2] = "x" THEN replace_0x(SubSeq(s, 3, Len(s)))
  ELSE <<s[1]>> \o replace_0x(Tail(s))

\* all(c in '0123456789ABCDEF' for c in value)
AllUpperHex(s) == \A i \in 1..Len(s) : \E d \in 1..16 : HexUpper[d] = s[i]

_normalize_hex(value) ==
  IF ~Truthy(value) THEN value
  ELSE LET v == upper(strip(value))
       IN IF ~startswith(v, <<"0", "X">>) /\ AllUpperHex(v)
          THEN <<"0", "x">> \o v
          ELSE v

_normalize_service_id(service_id) ==
  IF ~Truthy(service_id) THEN <<"0", "x", "0", "0">>
  ELSE LET v == upper(strip(service_id))
       IN IF ~startswith(v, <<"0", "X">>) /\ AllUpperHex(v)
          THEN <<"0", "x">> \o v
          ELSE v

_get_service_name(service_id, original_name) ==
  LET hits == {i \in 1..Len(uds_services) : uds_services[i].key = service_id}
  IN IF hits # {} THEN uds_services[CHOOSE i \in hits : TRUE].name
     ELSE IF Truthy(original_name) THEN original_name
     ELSE <<"Service_">> \o replace_0x(service_id)

\* A variant of _get_positive_response_id that hands an unparsable ID back.
_get_positive_response_id_no_default(service_id) ==
  IF PyIntHex(service_id).ok
  THEN <<"0", "x">> \o Format02X(PyIntHex(service_id).val + 64)
  ELSE service_id

\* A variant of _get_positive_response_id that leaves out the 0x40 offset.
_get_positive_response_id_no_offset(service_id) ==
  IF PyIntHex(service_id).ok
  THEN <<"0", "x">> \o Format02X(PyIntHex(service_id).val)
  ELSE <<"0", "x", "7", "F">>

_get_positive_response_id(service_id) ==
  IF PyIntHex(service_id).ok
  THEN <<"0", "x">> \o Format02X(PyIntHex(service_id).val + 64)   \* + 0x40
  ELSE <<"0", "x", "7", "F">>                                     \* bare except

\* a parameter dict of a source service: has_value tells whether the key 'value'
\* is present
Param(type, has_value, value) == [type |-> type, has_value |-> has_value, value |-> value]

\* param.get('value')
GetValue(param) == IF param.has_value THEN param.value ELSE None
\* param.get('value', '')
GetValueOrEmpty(param) == IF param.has_value THEN param.value ELSE <<>>

IsDataIdentifier(param) == param.type = <<"DataIdentifier">>

\* A variant of RequestParams that copies every source request parameter.
RequestParams_unfiltered(service, service_id) ==
  <<[type |-> "ServiceId", name |-> "ServiceId", value |-> service_id]>>
  \o [i \in 1..Len(service.request_params) |->
        [type |-> "DataIdentifier", name |-> "DID",
         value |-> GetValue(service.request_params[i])]]

\* Lines 124-141: request_params of the ODX service
RequestParams(service, service_id) ==
  LET dis == FilterSeq(service.request_params,
                       {i \in 1..Len(service.request_params) :
                          IsDataIdentifier(service.request_params[i])})
  IN <<[type |-> "ServiceId", name |-> "ServiceId", value |-> service_id]>>
     \o [i \in 1..Len(dis) |->
           [type |-> "DataIdentifier", name |-> "DID", value |-> GetValue(dis[i])]]

\* Lines 157-168: the two parameters appended for one DataIdentifier response
\* parameter
ResponsePair(param) ==
  LET did_id == replace_0x(GetValueOrEmpty(param))
  IN <<[type |-> "DataIdentifier", name |-> "DID", value |-> GetValue(param)],
       [type |-> "Data",
        name |-> <<"DID_">> \o did_id \o <<"_Data">>,
        structure_ref |-> <<"DOP.DID_">> \o did_id]>>

\* A variant of ResponseParams that appends no Data parameter.
ResponseParams_unpaired(service, service_id) ==
  LET dis == FilterSeq(service.response_params,
                       {i \in 1..Len(service.response_params) :
                          IsDataIdentifier(service.response_params[i])})
  IN <<[type |-> "ServiceId", name |-> "ServiceId",
        value |-> _get_positive_response_id(service_id)]>>
     \o [i \in 1..Len(dis) |-> ResponsePair(dis[i])[1]]

\* Lines 143-168: response_params of the ODX service
ResponseParams(service, service_id) ==
  LET dis == FilterSeq(service.response_params,
                       {i \in 1..Len(service.response_params) :
                          IsDataIdentifier(service.response_params[i])})
  IN <<[type |-> "ServiceId", name |-> "ServiceId",
        value |-> _get_positive_response_id(service_id)]>>
     \o Concat([i \in 1..Len(dis) |-> ResponsePair(dis[i])])

\* Line 163: param.get('value', '') is None when the key is present with the
\* value None, and None.replace raises AttributeError
ResponseParamsRaise(service) ==
  \E i \in 1..Len(service.response_params) :
    /\ IsDataIdentifier(service.response_params[i])
    /\ service.response_params[i].has_value
    /\ service.response_params[i].value = None

RaisedRec == [raised |-> TRUE]

\* service_name.replace(' ', '')
RemoveSpaces(s) == FilterSeq(s, {i \in 1..Len(s) : s[i] # " "})

\* the ODXService, NoneRec for None, RaisedRec for an exception leaving the function
_convert_service(service) ==
  IF ~Truthy(service.id) \/ ~Truthy(service.name) THEN NoneRec
  ELSE LET service_id == _normalize_service_id(service.id)
           service_name == _get_service_name(service_id, service.name)
       IN IF ResponseParamsRaise(service) THEN RaisedRec
          ELSE [id |-> RemoveSpaces(service_name),
                name |-> service_name,
                service_id |-> service_id,
                request_params |-> RequestParams(service, service_id),
                response_params |-> ResponseParams(service, service_id),
                description |-> IF Truthy(service.description) THEN service.description
                                ELSE service_name \o <<" service">>]

\* A variant of _convert_data_identifier that keeps the 0x prefix in the id.
_convert_data_identifier_prefixed(did) ==
  IF ~Truthy(did.identifier) \/ ~Truthy(did.name) THEN NoneRec
  ELSE LET did_id == _normalize_hex(did.identifier)
       IN [id |-> <<"DID_">> \o did_id,
           identifier |-> did_id,
           name |-> did.name,
           description |-> IF Truthy(did.description) THEN did.description
                           ELSE <<"Data Identifier ">> \o did_id,
           data_type |-> IF Truthy(did.encoding) THEN did.encoding ELSE <<"BYTEFIELD">>,
           length |-> IF did.length # Absent /\ did.length[1] # 0 THEN did.length[1] ELSE 1,
           structure |-> did.signals]

\* the ODXDataIdentifier, NoneRec for None; length is an optional int
_convert_data_identifier(did) ==
  IF ~Truthy(did.identifier) \/ ~Truthy(did.name) THEN NoneRec
  ELSE LET did_id == _normalize_hex(did.identifier)
           did_name == IF Truthy(did.name) THEN did.name
                       ELSE <<"DID_">> \o replace_0x(did_id)
       IN [id |-> <<"DID_">> \o replace_0x(did_id),
           identifier |-> did_id,
           name |-> did_name,
           description |-> IF Truthy(did.description) THEN did.description
                           ELSE <<"Data Identifier ">> \o did_id,
           data_type |-> IF Truthy(did.encoding) THEN did.encoding ELSE <<"BYTEFIELD">>,
           length |-> IF did.length # Absent /\ did.length[1] # 0 THEN did.length[1] ELSE 1,
           structure |-> did.signals]
----------------------------------------------------------------------------
\* Input records of the mapper

\* identifier digits, in upper and lower case, and two that are not hex
IdBodies ==
  {<<"2", "2">>,
   <<"2", "e">>,
   <<"2", "E">>,
   <<"3", "E">>,
   <<"3", "e">>,
   <<"F", "E", "9", "0">>,
   <<"f", "e", "9", "0">>,
   <<"1", "0">>,
   <<"C", "0">>,
   <<"F", "F">>,
   <<"7">>,
   <<"G", "1">>,
   <<"2", "G">>}

\* identifier texts: each body bare, with the prefix 0x and with the prefix 0X;
\* blank, padded and malformed texts; None.  Identifiers are unsigned.
IdTexts ==
  IdBodies
  \cup {<<"0", "x">> \o b : b \in IdBodies}
  \cup {<<"0", "X">> \o b : b \in IdBodies}
  \cup {<<>>,
   <<" ">>,
   <<"0", "x">>,
   <<"0", "X">>,
   <<" ", "2", "2">>,
   <<" ", "0", "x", "2", "2", " ">>,
   <<"x", "2", "2">>,
   <<"2", "_", "2">>,
   <<"0", "x", "0", "x", "2", "2">>,
   <<"0", "x", " ", "2", "2">>}
  \cup {None}

NameTexts == {None, <<>>, <<"Read", " ", "Data">>}

\* the parameter dicts of a source service
ParamKinds ==
  {Param(<<"DataIdentifier">>, TRUE, <<"0", "x", "F", "1", "9", "0">>),
   Param(<<"DataIdentifier">>, TRUE, <<"f", "1", "9", "0">>),
   Param(<<"DataIdentifier">>, TRUE, <<"0", "X", "F", "1", "9", "0">>),
   Param(<<"DataIdentifier">>, TRUE, <<"1", "0", "x", "2">>),
   Param(<<"DataIdentifier">>, TRUE, None),
   Param(<<"DataIdentifier">>, FALSE, None),
   Param(<<"SubFunction">>, TRUE, <<"0", "1">>),
   Param(None, TRUE, <<"0", "x", "F", "1", "9", "0">>)}

\* models.cdd_model.Service, the fields the mapper reads
Service(id, name, description, request_params, response_params) ==
  [id |-> id, name |-> name, description |-> description,
   request_params |-> request_params, response_params |-> response_params]

\* models.cdd_model.DataIdentifier, the fields the mapper reads
DataIdentifier(identifier, name, description, length, encoding) ==
  [identifier |-> identifier, name |-> name, description |-> description,
   length |-> length, encoding |-> encoding, signals |-> <<>>]

ReadRequest == <<Param(<<"DataIdentifier">>, TRUE, <<"F", "1", "9", "0">>)>>
ReadResponse == <<Param(<<"DataIdentifier">>, TRUE, <<"0", "x", "F", "1", "9", "0">>)>>

\* services over every id text, over the shapes of the identity fields, and over
\* the parameter lists
Services ==
  {Service(id, <<"Read", " ", "Data">>, None, ReadRequest, ReadResponse) : id \in IdTexts}
  \cup {Service(id, nm, ds, <<>>, <<>>) :
          id \in {None, <<>>, <<"2", "2">>, <<"A", "B">>},
          nm \in NameTexts,
          ds \in {None, <<"Reads", " ", "data">>}}
  \cup {Service(<<"2", "2">>, <<"Read">>, None, ps, <<>>) :
          ps \in SeqsUpTo(ParamKinds, MaxParams)}
  \cup {Service(<<"0", "x", "2", "E">>, <<"Write">>, None, <<>>, ps) :
          ps \in SeqsUpTo(ParamKinds, MaxParams)}

CoreServices ==
  {Service(<<"2", "2">>, <<"Read", " ", "Data">>, None, ReadRequest, ReadResponse),
   Service(None, None, None, <<>>, <<>>),
   Service(<<"3", "E">>, <<"Tester">>, None, <<>>,
           <<Param(<<"DataIdentifier">>, TRUE, None)>>)}

DataIdentifiers ==
  {DataIdentifier(id, <<"VIN">>, None, Absent, None) : id \in IdTexts}
  \cup {DataIdentifier(id, nm, ds, ln, en) :
          id \in {None, <<>>, <<"F", "E", "9", "0">>},
          nm \in NameTexts,
          ds \in {None, <<"Vehicle", " ", "number">>},
          ln \in {Absent, Present(0), Present(17)},
          en \in {None, <<>>, <<"ASCII">>}}

CoreDataIdentifiers ==
  {DataIdentifier(<<"F", "1", "9", "0">>, <<"VIN">>, None, Present(17), <<"ASCII">>),
   DataIdentifier(None, None, None, Absent, None),
   DataIdentifier(<<"F", "E", "9", "0">>, <<"Date">>, None, Absent, None)}

\* models.cdd_model.DiagnosticData, the fields the mapper reads
DiagnosticData(services, data_identifiers) ==
  [services |-> services, data_identifiers |-> data_identifiers]

DataInputs ==
  {DiagnosticData(<<sv>>, <<>>) : sv \in Services}
  \cup {DiagnosticData(<<>>, <<d>>) : d \in DataIdentifiers}
  \cup {DiagnosticData(ss, ds) :
          ss \in SeqsUpTo(CoreServices, MaxServices),
          ds \in SeqsUpTo(CoreDataIdentifiers, MaxDataIdentifiers)}

----------------------------------------------------------------------------
\* _convert_diagnostic_data, stepped record by record

\* the call, up to the first iteration of the service loop
_convert_diagnostic_data(d) ==
  /\ mpc = "idle"
  /\ data' = d
  /\ mpc' = "services" /\ midx' = 1
  /\ src_rec' = NoneRec /\ odx_rec' = NoneRec
  /\ odx_services' = <<>> /\ odx_dids' = <<>>
  /\ UNCHANGED parser_vars
  /\ UNCHANGED rerun_vars
  /\ UNCHANGED enrich_vars
  /\ UNCHANGED upload_vars

\* one iteration of the service loop; an exception of _convert_service leaves
\* _convert_diagnostic_data, which has no handler
_convert_service_next ==
  /\ mpc = "services" /\ midx <= Len(data.services)
  /\ src_rec' = data.services[midx]
  /\ odx_rec' = _convert_service(src_rec')
  /\ IF odx_rec' = RaisedRec
     THEN mpc' = "raised" /\ UNCHANGED <<odx_services, midx>>
     ELSE /\ odx_services' = IF odx_rec' # NoneRec THEN Append(odx_services, odx_rec')
                             ELSE odx_services
          /\ midx' = midx + 1
          /\ UNCHANGED mpc
  /\ UNCHANGED <<data, odx_dids>>
  /\ UNCHANGED parser_vars
  /\ UNCHANGED rerun_vars
  /\ UNCHANGED enrich_vars
  /\ UNCHANGED upload_vars

\* the service loop is over
_convert_service_done ==
  /\ mpc = "services" /\ midx > Len(data.services)
  /\ mpc' = "dids" /\ midx' = 1
  /\ src_rec' = NoneRec /\ odx_rec' = NoneRec
  /\ UNCHANGED <<data, odx_services, odx_dids>>
  /\ UNCHANGED parser_vars
  /\ UNCHANGED rerun_vars
  /\ UNCHANGED enrich_vars
  /\ UNCHANGED upload_vars

\* one iteration of the DID loop
_convert_data_identifier_next ==
  /\ mpc = "dids" /\ midx <= Len(data.data_identifiers)
  /\ src_rec' = data.data_identifiers[midx]
  /\ odx_rec' = _convert_data_identifier(src_rec')
  /\ odx_dids' = IF odx_rec' # NoneRec THEN Append(odx_dids, odx_rec') ELSE odx_dids
  /\ midx' = midx + 1
  /\ UNCHANGED <<data, mpc, odx_services>>
  /\ UNCHANGED parser_vars
  /\ UNCHANGED rerun_vars
  /\ UNCHANGED enrich_vars
  /\ UNCHANGED upload_vars

\* the DID loop is over and the ODXDocument is returned
_convert_data_identifier_done ==
  /\ mpc = "dids" /\ midx > Len(data.data_identifiers)
  /\ mpc' = "returned" /\ midx' = 0
  /\ src_rec' = NoneRec /\ odx_rec' = NoneRec
  /\ UNCHANGED <<data, odx_services, odx_dids>>
  /\ UNCHANGED parser_vars
  /\ UNCHANGED rerun_vars
  /\ UNCHANGED enrich_vars
  /\ UNCHANGED upload_vars

\* the caller has the ODXDocument, or the exception; the converter keeps nothing
_convert_diagnostic_data_done ==
  /\ mpc \in {"returned", "raised"}
  /\ mpc' = "idle" /\ data' = NoneRec /\ midx' = 0
  /\ src_rec' = NoneRec /\ odx_rec' = NoneRec
  /\ odx_services' = <<>> /\ odx_dids' = <<>>
  /\ UNCHANGED parser_vars
  /\ UNCHANGED rerun_vars
  /\ UNCHANGED enrich_vars
  /\ UNCHANGED upload_vars

NextODX ==
  \/ \E d \in DataInputs : _convert_diagnostic_data(d)
  \/ _convert_service_next
  \/ _convert_service_done
  \/ _convert_data_identifier_next
  \/ _convert_data_identifier_done
  \/ _convert_diagnostic_data_done

SpecODX == Init /\ [][NextODX]_vars
----------------------------------------------------------------------------
\* Claims about the mapper

\* a source service was just handed to _convert_service, which returned odx_rec
ServiceConverted == mpc \in {"services", "raised"} /\ src_rec # NoneRec
\* _convert_service returned an ODX service
ServiceProduced == ServiceConverted /\ odx_rec # NoneRec /\ odx_rec # RaisedRec
\* a source DID was just handed to _convert_data_identifier
DidConverted == mpc = "dids" /\ src_rec # NoneRec

\* s is a hex identifier: hex digits, optionally after the prefix 0x or 0X
IsHexIdent(s) ==
  LET prefixed == startswith(s, <<"0", "x">>) \/ startswith(s, <<"0", "X">>)
      digits == IF prefixed THEN SubSeq(s, 3, Len(s)) ELSE s
  IN s # None /\ digits # <<>> /\ \A i \in 1..Len(digits) : IsHexChar(digits[i])

\* the digits of a hex identifier, in upper case
HexIdentDigits(s) ==
  upper(IF startswith(s, <<"0", "x">>) \/ startswith(s, <<"0", "X">>)
        THEN SubSeq(s, 3, Len(s)) ELSE s)

\* s without its leading "0x", if it has one
WithoutPrefix0x(s) == IF startswith(s, <<"0", "x">>) THEN SubSeq(s, 3, Len(s)) ELSE s

\* C5: _normalize_hex maps "FE90" and "0xfe90" to "0xFE90", is idempotent, and
\* sends every spelling of a hex value (with or without prefix, in any letter
\* case) to the same string, "0x" followed by the uppercase digits; likewise
\* _normalize_service_id.
C5_NormalizeHexCanonical ==
  /\ (DidConverted /\ odx_rec # NoneRec) =>
       /\ _normalize_hex(odx_rec.identifier) = odx_rec.identifier
       /\ IsHexIdent(src_rec.identifier) =>
            odx_rec.identifier = <<"0", "x">> \o HexIdentDigits(src_rec.identifier)
       /\ src_rec.identifier \in {<<"F", "E", "9", "0">>, <<"0", "x", "f", "e", "9", "0">>} =>
            odx_rec.identifier = <<"0", "x", "F", "E", "9", "0">>
  /\ ServiceProduced =>
       /\ _normalize_service_id(odx_rec.service_id) = odx_rec.service_id
       /\ IsHexIdent(src_rec.id) =>
            odx_rec.service_id = <<"0", "x">> \o HexIdentDigits(src_rec.id)

\* h is "0x" followed by k >= 0 in uppercase hex with at least two digits
IsHex02X(h, k) ==
  /\ Len(h) >= 4 /\ h[1] = "0" /\ h[2] = "x"
  /\ IsPaddedHex(SubSeq(h, 3, Len(h)), k, 2)

\* C6: when the normalized service ID parses as a base-16 integer sid, the first
\* response parameter of the mapped service carries what
\* _get_positive_response_id returns for it, "0x" followed by sid + 0x40 in
\* uppercase hex with at least two digits: 0x22 gives 0x62 and 0x3E gives 0x7E.
C6_PositiveResponseId ==
  (ServiceProduced /\ PyIntHex(odx_rec.service_id).ok) =>
    /\ odx_rec.response_params[1].value = _get_positive_response_id(odx_rec.service_id)
    /\ IsHex02X(odx_rec.response_params[1].value, PyIntHex(odx_rec.service_id).val + 64)
    /\ odx_rec.service_id = <<"0", "x", "2", "2">> =>
         odx_rec.response_params[1].value = <<"0", "x", "6", "2">>
    /\ odx_rec.service_id = <<"0", "x", "3", "E">> =>
         odx_rec.response_params[1].value = <<"0", "x", "7", "E">>

\* C6 witness: the service with id "3E" was mapped and answers with 0x7E
C6_Witness ==
  /\ ServiceProduced
  /\ src_rec.id = <<"3", "E">>
  /\ odx_rec.service_id = <<"0", "x", "3", "E">>
  /\ odx_rec.response_params[1].value = <<"0", "x", "7", "E">>

\* C7: a DID record lacking both identifier and name is left out of the ODX DID
\* list, whereas a service record lacking id and name is still put on the ODX
\* service list, with fallback field values.
C7_AsymmetricDrop ==
  /\ (DidConverted /\ ~Truthy(src_rec.identifier) /\ ~Truthy(src_rec.name)) =>
       /\ odx_rec = NoneRec
       /\ Len(odx_dids) <= midx - 2
  /\ (ServiceConverted /\ ~Truthy(src_rec.id) /\ ~Truthy(src_rec.name)) =>
       /\ odx_rec # NoneRec /\ odx_rec # RaisedRec
       /\ odx_services # <<>> /\ odx_services[Len(odx_services)] = odx_rec

\* the source DIDs converted so far that have an identifier and a name
KeptDids ==
  LET seen == SubSeq(data.data_identifiers, 1, midx - 1)
  IN FilterSeq(seen, {i \in 1..Len(seen) :
                        Truthy(seen[i].identifier) /\ Truthy(seen[i].name)})

ResponseDids(service) ==
  {i \in 1..Len(service.response_params) : IsDataIdentifier(service.response_params[i])}

C10_RequestParamsCopied ==
  ServiceProduced =>
    LET rq == odx_rec.request_params
        srcp == src_rec.request_params
        dis == FilterSeq(srcp, {i \in 1..Len(srcp) : srcp[i].type = <<"DataIdentifier">>})
    IN /\ rq[1].type = "ServiceId"
       /\ rq[1].value = odx_rec.service_id
       /\ rq[1].value = _normalize_service_id(src_rec.id)
       /\ Len(rq) = 1 + Len(dis)
       /\ \A k \in 1..Len(dis) :
            /\ rq[k + 1].type = "DataIdentifier"
            /\ rq[k + 1].value = (IF dis[k].has_value THEN dis[k].value ELSE None)

\* C10 witness: a service with a DataIdentifier and another request parameter
\* was mapped, and only the DataIdentifier was copied
C10_Witness ==
  /\ ServiceProduced
  /\ Len(src_rec.request_params) = 2
  /\ src_rec.request_params[1].type = <<"SubFunction">>
  /\ src_rec.request_params[2].type = <<"DataIdentifier">>
  /\ Len(odx_rec.request_params) = 2
  /\ odx_rec.request_params[2].value = src_rec.request_params[2].value

\* the standard name of the SID that the id text s denotes, if the table has it
StandardName(s) ==
  LET key == <<"0", "x">> \o HexIdentDigits(s)
      hits == {i \in 1..Len(uds_services) : uds_services[i].key = key}
  IN IF IsHexIdent(s) /\ hits # {}
     THEN Present(uds_services[CHOOSE i \in hits : TRUE].name)
     ELSE Absent

\* C11: a mapped service whose id denotes a SID of the standard UDS name table,
\* in any spelling ("22", "2e", "0x22", "0x2e", "0X2E"), carries the table's
\* name whatever its source name; another name is used only when the SID is not
\* in the table, and then the source name, or "Service_<hex>" when there is none.
C11_StandardNamePreferred ==
  ServiceProduced =>
    IF StandardName(src_rec.id) # Absent
       THEN odx_rec.name = StandardName(src_rec.id)[1]
       ELSE IF Truthy(src_rec.name)
       THEN odx_rec.name = src_rec.name
       ELSE odx_rec.name =
              <<"Service_">> \o WithoutPrefix0x(_normalize_service_id(src_rec.id))

\* s has no 0x / 0X prefix and holds a character that is not a hex digit
NonHexLooking(s) ==
  /\ Truthy(s)
  /\ ~startswith(s, <<"0", "x">>) /\ ~startswith(s, <<"0", "X">>)
  /\ \E i \in 1..Len(s) : ~IsHexChar(s[i])

\* C14: an identifier string without 0x prefix that holds a non-hex character
\* passes through _normalize_hex, and through _normalize_service_id, unchanged,
\* character for character.
C14_NonHexPassThrough ==
  /\ (DidConverted /\ odx_rec # NoneRec /\ NonHexLooking(src_rec.identifier)) =>
       odx_rec.identifier = src_rec.identifier
  /\ (ServiceProduced /\ NonHexLooking(src_rec.id)) =>
       odx_rec.service_id = src_rec.id

\* C15: _get_positive_response_id does not raise; for a service ID that does
\* not parse as a base-16 integer it returns "0x7F", and the mapped service is
\* still emitted with that value as its first response parameter.
C15_UnparsableIdDefault ==
  (/\ ServiceConverted /\ Truthy(src_rec.id) /\ Truthy(src_rec.name)
   /\ ~ResponseParamsRaise(src_rec)
   /\ ~PyIntHex(_normalize_service_id(src_rec.id)).ok)
  => /\ odx_rec # NoneRec /\ odx_rec # RaisedRec
     /\ _get_positive_response_id(odx_rec.service_id) = <<"0", "x", "7", "F">>
     /\ odx_rec.response_params[1].type = "ServiceId"
     /\ odx_rec.response_params[1].value = <<"0", "x", "7", "F">>
     /\ odx_services # <<>> /\ odx_services[Len(odx_services)] = odx_rec

\* C15 witness: the service with the id "G1" was mapped and put on the list
\* with 0x7F as its first response parameter
C15_Witness ==
  /\ ServiceProduced
  /\ src_rec.id = <<"G", "1">>
  /\ odx_rec.service_id = <<"G", "1">>
  /\ odx_rec.response_params[1].value = <<"0", "x", "7", "F">>
  /\ odx_services = <<odx_rec>>

----------------------------------------------------------------------------
\* Claims about the extraction loops

\* the records among rs that are not None, in order
Successes(rs) == FilterSeq(rs, {i \in 1..Len(rs) : rs[i] # NoneRec})

\* what extraction of the first k DID children of the DIDS section yields
DidsOfFirst(k) ==
  IF root.dids = Absent THEN <<>>
  ELSE Successes([i \in 1..k |-> _parse_did(root.dids[1][i])])

\* what extraction of the first k PROTOCOLSERVICE children yields
ServicesOfFirst(k) ==
  IF root.services = Absent THEN <<>>
  ELSE Successes([i \in 1..k |-> _parse_protocol_service(root.services[1][i])])

SectionLen(section) == IF section = Absent THEN 0 ELSE Len(section[1])

\* the first parse_file call of an instance is under way or has just returned
FirstParse == calls = 1 /\ root # NoneRec

\* C13: when extraction of one DID or service element fails, only that entity
\* is left out: the document holds every other DID child and every other
\* PROTOCOLSERVICE child processed so far, in document order, and parse_file
\* does not raise for a readable file.
C13_FailureIsolated ==
  /\ pc = "raised" => root = NoneRec
  /\ (FirstParse /\ pc = "dids") => document.dids = DidsOfFirst(idx - 1)
  /\ (FirstParse /\ pc = "services") =>
       /\ document.dids = DidsOfFirst(SectionLen(root.dids))
       /\ document.protocol_services = ServicesOfFirst(idx - 1)
  /\ (FirstParse /\ pc = "returned") =>
       /\ document.dids = DidsOfFirst(SectionLen(root.dids))
       /\ document.protocol_services = ServicesOfFirst(SectionLen(root.services))

\* C13 witness: parse_file returned for a file whose first DID (n = "abc") and
\* whose second service failed, with the other DID and the other service kept
C13_Witness ==
  /\ FirstParse /\ pc = "returned"
  /\ SectionLen(root.dids) = 2 /\ SectionLen(root.services) = 2
  /\ root.dids[1][1].n = <<"a", "b", "c">>
  /\ _parse_did(root.dids[1][1]) = NoneRec
  /\ _parse_protocol_service(root.services[1][2]) = NoneRec
  /\ Len(document.dids) = 1 /\ document.dids[1].number = 255
  /\ Len(document.protocol_services) = 1
  /\ document.protocol_services[1].name = <<"Session">>

\* C20: a missing DIDS section appends no DID and the services are still
\* extracted; a missing PROTOCOLSERVICES section appends no service and the DIDs
\* are still extracted; with neither, both lists are empty; parse_file returns
\* the document and raises nothing.
C20_MissingSectionsNonFatal ==
  /\ (root # NoneRec /\ (root.dids = Absent \/ root.services = Absent)) =>
       pc \in {"dids", "services", "returned"}
  /\ (FirstParse /\ pc = "returned" /\ root.dids = Absent) =>
       /\ document.dids = <<>>
       /\ document.protocol_services = ServicesOfFirst(SectionLen(root.services))
  /\ (FirstParse /\ pc = "returned" /\ root.services = Absent) =>
       /\ document.protocol_services = <<>>
       /\ document.dids = DidsOfFirst(SectionLen(root.dids))

\* C20 witness: a file without DIDS section was parsed to the end and its
\* service is in the document
C20_Witness ==
  /\ FirstParse /\ pc = "returned"
  /\ root.dids = Absent /\ root.services # Absent
  /\ document.dids = <<>>
  /\ Len(document.protocol_services) = 1

----------------------------------------------------------------------------
\* Claims about messages, names and data objects

\* the first child of a service element with the given tag, if any
MessageElem(e, tag) ==
  LET hits == {i \in 1..Len(e.children) : e.children[i].tag = tag}
  IN IF hits = {} THEN Absent
     ELSE Present(e.children[CHOOSE i \in hits : \A j \in hits : i <= j])

ComponentKinds == <<"CONSTCOMP", "STATICCOMP", "SIMPLEPROXYCOMP">>

KindRank(kind) == CHOOSE r \in 1..3 : ComponentKinds[r] = kind

\* cs lists the components of message element m grouped by kind: constants,
\* then statics, then simple proxies, each group in document order
GroupedByKind(m, cs) ==
  /\ Len(cs) = Len(m.comps)
  /\ \A i \in 1..Len(cs) : \A j \in 1..Len(cs) :
       i < j => KindRank(cs[i].component_type) <= KindRank(cs[j].component_type)
  /\ \A r \in 1..3 :
       LET es == FilterSeq(m.comps, {i \in 1..Len(m.comps) : m.comps[i].tag = ComponentKinds[r]})
           ps == FilterSeq(cs, {i \in 1..Len(cs) : cs[i].component_type = ComponentKinds[r]})
       IN /\ Len(ps) = Len(es)
          /\ \A k \in 1..Len(es) :
               /\ ps[k].spec = AttrOrEmpty(es[k].spec)
               /\ ps[k].value = AttrOrEmpty(es[k].v)

\* C16: the components of every message are all its CONSTCOMP descendants, at
\* any depth, in document order, then all its STATICCOMP descendants, then all
\* its SIMPLEPROXYCOMP descendants, each with the component_type of its kind.
C16_ComponentsGroupedByKind ==
  (ServiceParsed /\ parsed # NoneRec) =>
    /\ (parsed.request # Absent) = (MessageElem(elem, "REQ") # Absent)
    /\ parsed.request # Absent =>
         GroupedByKind(MessageElem(elem, "REQ")[1], parsed.request[1].components)
    /\ (parsed.positive_response # Absent) = (MessageElem(elem, "POS") # Absent)
    /\ parsed.positive_response # Absent =>
         GroupedByKind(MessageElem(elem, "POS")[1], parsed.positive_response[1].components)
    /\ (parsed.negative_response # Absent) = (MessageElem(elem, "NEG") # Absent)
    /\ parsed.negative_response # Absent =>
         GroupedByKind(MessageElem(elem, "NEG")[1], parsed.negative_response[1].components)

\* C16 witness: the response with components proxy, static did, nested constant
\* sid, nested static len, constant sub was parsed to sid, sub, did, len, data
C16_Witness ==
  /\ ServiceParsed /\ parsed # NoneRec
  /\ parsed.positive_response # Absent
  /\ Len(MessageElem(elem, "POS")[1].comps) = 5
  /\ MessageElem(elem, "POS")[1].comps[3].depth = 2
  /\ LET cs == parsed.positive_response[1].components
     IN /\ Len(cs) = 5
        /\ cs[1].spec = <<"sid">> /\ cs[1].component_type = "CONSTCOMP"
        /\ cs[2].spec = <<"sub">> /\ cs[2].component_type = "CONSTCOMP"
        /\ cs[3].spec = <<"did">> /\ cs[3].component_type = "STATICCOMP"
        /\ cs[4].spec = <<"len">> /\ cs[4].component_type = "STATICCOMP"
        /\ cs[5].spec = <<"data">> /\ cs[5].component_type = "SIMPLEPROXYCOMP"

\* the text the tag locator is to take among several TUV matches: that of the
\* first TUV marked en-US if there is one, else that of the first TUV
PreferredText(tuvs) ==
  LET marked == {i \in 1..Len(tuvs) : tuvs[i].lang = <<"en-US">>}
  IN IF marked # {} THEN tuvs[CHOOSE i \in marked : \A j \in marked : i <= j].text
     ELSE tuvs[1].text

\* C17: when an element has no NAME/TUV and several TUV descendants, the name
\* extracted is the text of the TUV marked with the language en-US if there is
\* one, and otherwise that of the first TUV in document order; checked on DIDs
\* and on services.
C17_EnUsPreferred ==
  /\ (DidParsed /\ parsed # NoneRec /\ elem.name_tuv = Absent /\ Len(elem.tuvs) > 1) =>
       parsed.name = PreferredText(elem.tuvs)
  /\ (ServiceParsed /\ parsed # NoneRec /\ elem.name_tuv = Absent /\ Len(elem.tuvs) > 1) =>
       parsed.name = PreferredText(elem.tuvs)

\* C18: uds_service_id is present only if the request message of the service
\* holds a constant component tagged spec="sid" whose literal value it is; it
\* is absent when the only sid-tagged constant lies in a response, or when
\* there is no request.
C18_SidOnlyFromRequest ==
  (ServiceParsed /\ parsed # NoneRec /\ parsed.uds_service_id # Absent) =>
    /\ MessageElem(elem, "REQ") # Absent
    /\ \E i \in 1..Len(MessageElem(elem, "REQ")[1].comps) :
         LET c == MessageElem(elem, "REQ")[1].comps[i]
         IN /\ c.tag = "CONSTCOMP" /\ c.spec = <<"sid">> /\ c.v # None
            /\ DenotesDecimal(c.v, parsed.uds_service_id[1])

\* the DATAOBJ elements under the STRUCTURE child of DID element e
OwnDataObjs(e) == IF e.structure = Absent THEN <<>> ELSE e.structure[1]

\* C19: the data_objects of every DID of a DIDS section are exactly the DATAOBJ
\* descendants of its own STRUCTURE child, in document order; a DATAOBJ outside
\* that STRUCTURE, or under a sibling DID, never appears among them, and a DID
\* without STRUCTURE has an empty list.
C19_DataObjectsFromOwnStructure ==
  (DidParsed /\ parsed # NoneRec) =>
    /\ Len(parsed.data_objects) = Len(OwnDataObjs(elem))
    /\ \A k \in 1..Len(parsed.data_objects) :
         /\ parsed.data_objects[k].id = AttrOrEmpty(OwnDataObjs(elem)[k].id)
         /\ parsed.data_objects[k].name =
              (IF OwnDataObjs(elem)[k].name_tuv # Absent
               THEN OwnDataObjs(elem)[k].name_tuv[1].text ELSE <<"DataObject">>)
         /\ \A j \in 1..Len(elem.stray) :
              parsed.data_objects[k].id # AttrOrEmpty(elem.stray[j].id)
    /\ document.dids[Len(document.dids)] = parsed

\* C19 witness: in a section of two DIDs, the second, with two DATAOBJ under
\* STRUCTURE and one outside, got exactly the two, after a first without any
C19_Witness ==
  /\ DidParsed /\ parsed # NoneRec /\ idx = 3
  /\ OwnDataObjs(root.dids[1][1]) = <<>>
  /\ Len(document.dids) = 2 /\ document.dids[1].data_objects = <<>>
  /\ Len(elem.stray) = 1
  /\ Len(parsed.data_objects) = 2
  /\ parsed.data_objects[1].name = <<"Year">>
  /\ parsed.data_objects[2].name = <<"DataObject">>

----------------------------------------------------------------------------
\* Claims about repeated extraction

\* both runs on the same input are over
BothRunsOver == pc \in {"returned", "raised"} /\ run_first # NoneRec

----------------------------------------------------------------------------
\* Claims about failure and reuse of parse_file

\* a step in which parse_file is called
CallStep == calls' = calls + 1

\* C21: parse_file raises to its caller exactly when the file is unreadable or
\* malformed, and then the parser's document is as it was before the call; no
\* failure of a section or of an entity makes parse_file raise.
C21_StructuralFailureFatal ==
  [][/\ (pc' = "raised" /\ pc # "raised") =>
          (CallStep /\ root' = NoneRec /\ document' = document)
     /\ CallStep => ((pc' = "raised") = (root' = NoneRec))
     /\ (pc = "raised" /\ pc' # "raised") => (pc' = "idle" /\ document' = document)]_vars

\* C21 witness: the second call on an instance raised for an unreadable file
\* and the DID and the service of the first call are still in the document
C21_Witness ==
  /\ pc = "raised" /\ calls = 2
  /\ Len(document.dids) = 1 /\ Len(document.protocol_services) = 1

\* C22: the accumulation lists of an instance are never reset: a call of
\* parse_file leaves them as they are, each loop iteration appends the entity it
\* extracted or nothing, and nothing else changes them, so after the k-th call
\* they are the concatenation, in call order, of what calls 1..k extracted, and
\* the one document every call returns shows them all.
C22_AccumulatesOnReuse ==
  [][/\ CallStep =>
          /\ document'.dids = document.dids
          /\ document'.protocol_services = document.protocol_services
     /\ (~CallStep /\ pc' = "dids") =>
          /\ document'.dids = document.dids \o Successes(<<_parse_did(elem')>>)
          /\ document'.protocol_services = document.protocol_services
     /\ (~CallStep /\ pc' = "services" /\ pc = "services") =>
          /\ document'.protocol_services =
               document.protocol_services \o Successes(<<_parse_protocol_service(elem')>>)
          /\ document'.dids = document.dids
     /\ (~CallStep /\ pc' \in {"idle", "returned", "raised"}) => document' = document
     /\ (pc = "dids" /\ pc' = "services") => document' = document]_vars

\* C22 witness: the second call on an instance returned, and the document
\* holds the DID and the service of the first call followed by those of the
\* second
C22_Witness ==
  /\ pc = "returned" /\ calls = 2 /\ root # NoneRec
  /\ Len(document.dids) = 2 /\ Len(document.protocol_services) = 2
  /\ document.dids[2] = _parse_did(root.dids[1][1])
  /\ document.protocol_services[2] = _parse_protocol_service(root.services[1][1])

----------------------------------------------------------------------------
\* Calls of _get_enhanced_service_description

\* the words service names are made of: the fragments of the elif chain, other
\* spellings of some of them, and words that are no fragment
NameWords ==
  {NameFragments[i].frag : i \in 1..Len(NameFragments)}
  \cup {"ecureset", "TRANSFERDATA", "Custom", "ReadScalingDataByIdentifier"}

\* the words of the names of more than one word
OrderWords ==
  {"ECUReset", "TesterPresent", "TransferData", "RequestTransferExit",
   "Custom", "ecureset"}

ServiceNames ==
  {<<w>> : w \in NameWords} \cup SeqsUpTo(OrderWords, MaxNameWords)

\* optional ints: None, keys of the table, and numbers that are no key
ServiceIds ==
  {Absent} \cup {Present(n) : n \in {16, 36, 54, 55, 56, 0, 127, 4660}}

_get_enhanced_service_description_call(n, sid) ==
  /\ epc = "idle" /\ epc' = "called"
  /\ service_name_arg' = n /\ uds_service_id_arg' = sid
  /\ UNCHANGED description_ret
  /\ UNCHANGED parser_vars
  /\ UNCHANGED mapper_vars
  /\ UNCHANGED rerun_vars
  /\ UNCHANGED upload_vars

_get_enhanced_service_description_return ==
  /\ epc = "called" /\ epc' = "returned"
  /\ description_ret' =
       _get_enhanced_service_description(service_name_arg, uds_service_id_arg)
  /\ UNCHANGED <<service_name_arg, uds_service_id_arg>>
  /\ UNCHANGED parser_vars
  /\ UNCHANGED mapper_vars
  /\ UNCHANGED rerun_vars
  /\ UNCHANGED upload_vars

\* the caller has taken the description
description_taken ==
  /\ epc = "returned" /\ epc' = "idle"
  /\ service_name_arg' = <<>> /\ uds_service_id_arg' = Absent
  /\ description_ret' = <<>>
  /\ UNCHANGED parser_vars
  /\ UNCHANGED mapper_vars
  /\ UNCHANGED rerun_vars
  /\ UNCHANGED upload_vars

NextEnrich ==
  \/ \E n \in ServiceNames, sid \in ServiceIds :
        _get_enhanced_service_description_call(n, sid)
  \/ _get_enhanced_service_description_return
  \/ description_taken

SpecEnrich == Init /\ [][NextEnrich]_vars

\* a call of _get_enhanced_service_description has returned
Described == epc = "returned"

\* the sid of the call is a key of the description table
SidInTable ==
  uds_service_id_arg # Absent /\ uds_service_id_arg[1] \in UdsDescriptionIds

\* the positions in the fragment list of the fragments the name contains
MatchingFragments ==
  {i \in 1..Len(NameFragments) :
     \E k \in 1..Len(service_name_arg) : service_name_arg[k] = NameFragments[i].frag}

GenericSentence ==
  <<"UDS diagnostic service providing ">> \o service_name_arg
  \o <<" functionality according to ISO 14229-1 specification.">>

\* C23: _get_enhanced_service_description returns the table text when the sid
\* is a key of the table, whatever the name; otherwise the text of the first
\* fragment, in list order, that the name contains; otherwise the generic
\* sentence naming the service; and what it returns is never empty.
C23_EnrichmentLookupOrder ==
  Described =>
    /\ description_ret # <<>> /\ description_ret # None
    /\ \A k \in 1..Len(description_ret) : description_ret[k] # ""
    /\ IF SidInTable
       THEN description_ret = uds_descriptions(uds_service_id_arg[1])
       ELSE IF MatchingFragments # {}
       THEN \E i \in MatchingFragments :
               /\ \A j \in MatchingFragments : i <= j
               /\ description_ret = NameFragments[i].text
       ELSE description_ret = GenericSentence

\* C23 witness: a call with a sid that is no key and a name that contains two
\* fragments, the later one of the list first, returned the text of the earlier
\* one of the list
C23_Witness ==
  /\ Described /\ uds_service_id_arg = Present(127)
  /\ service_name_arg = <<"TesterPresent", "ECUReset">>
  /\ description_ret = uds_descriptions(17)

\* the numeric ID the mapper's table of standard names gives to a name
StandardIdOf(name) ==
  LET hits == {i \in 1..Len(uds_services) : uds_services[i].name = <<name>>}
  IN IF hits = {} THEN Absent
     ELSE Present(PyIntHex(uds_services[CHOOSE i \in hits : TRUE].key).val)

\* C24: for a name that is one fragment of the fallback list and a sid that is
\* no key of the table, the description returned is the table text of the
\* numeric ID that the mapper's table of standard names assigns to that name.
C24_FragmentAgreesWithNumericId ==
  (Described /\ ~SidInTable /\ Len(service_name_arg) = 1 /\ MatchingFragments # {}) =>
    /\ StandardIdOf(service_name_arg[1]) # Absent
    /\ StandardIdOf(service_name_arg[1])[1] \in UdsDescriptionIds
    /\ description_ret = uds_descriptions(StandardIdOf(service_name_arg[1])[1])

----------------------------------------------------------------------------
\* Claims about names, numbers and failures of single entities

\* the element handed to the parser has no NAME text: no NAME / TUV element, or
\* one without text
LacksNameText(e, name_elem) == name_elem = Absent \/ ~Truthy(name_elem[1].text)

\* the names of a message record and of its components are strings
MessageNamed(m) ==
  m # Absent =>
    /\ m[1].name # None
    /\ \A i \in 1..Len(m[1].components) : m[1].components[i].name # None

\* C25: an element without name data is not dropped, and the name of every
\* record returned for a service, a message, a component, a DID or a data
\* object is a string (the located text or the default of the kind), never None.
C25_NameDefaultsNeverNone ==
  /\ (DidParsed /\ PyInt(IF elem.n = None THEN <<"0">> ELSE elem.n).ok) =>
       /\ LacksNameText(elem, DidNameElem(elem)) => parsed # NoneRec
       /\ parsed # NoneRec =>
            /\ parsed.name # None
            /\ \A i \in 1..Len(parsed.data_objects) : parsed.data_objects[i].name # None
  /\ ServiceParsed =>
       /\ LacksNameText(elem, FirstNameElem(elem)) => parsed # NoneRec
       /\ parsed # NoneRec =>
            /\ parsed.name # None
            /\ MessageNamed(parsed.request)
            /\ MessageNamed(parsed.positive_response)
            /\ MessageNamed(parsed.negative_response)

\* C27: every DID record has a number in 0..65535 and a number_hex of exactly
\* six characters, "0x" followed by 4 uppercase hex digits, whatever integer
\* text its n attribute holds.
C27_NumberInRange ==
  (DidParsed /\ parsed # NoneRec) =>
    /\ parsed.number \in 0..65535
    /\ Len(parsed.number_hex) = 6
    /\ SubSeq(parsed.number_hex, 1, 2) = <<"0", "x">>
    /\ IsUpperHex(SubSeq(parsed.number_hex, 3, Len(parsed.number_hex)))

\* the source services that _convert_service turns into an ODX service
ConvertibleServices ==
  FilterSeq(data.services,
            {i \in 1..Len(data.services) :
               _convert_service(data.services[i]) \notin {NoneRec, RaisedRec}})

\* the source DIDs that _convert_data_identifier turns into an ODX DID
ConvertibleDids ==
  FilterSeq(data.data_identifiers,
            {i \in 1..Len(data.data_identifiers) :
               _convert_data_identifier(data.data_identifiers[i]) # NoneRec})

\* C26: _convert_diagnostic_data raises for no input document: a record that
\* cannot be converted is dropped or given defaults, and when the call returns
\* every other record has been converted and stands in the output in input order.
C26_MapperAbsorbsEntityIssues ==
  /\ mpc # "raised"
  /\ mpc = "returned" =>
       /\ odx_services = [i \in 1..Len(ConvertibleServices) |->
                            _convert_service(ConvertibleServices[i])]
       /\ odx_dids = [i \in 1..Len(ConvertibleDids) |->
                        _convert_data_identifier(ConvertibleDids[i])]

\* C28: for every request service ID in 0x00..0xFF the positive-response ID of
\* the mapped service is "0x" followed by exactly two uppercase hex digits.
C28_PositiveResponseOneByte ==
  (/\ ServiceProduced /\ PyIntHex(odx_rec.service_id).ok
   /\ PyIntHex(odx_rec.service_id).val \in 0..255) =>
    LET value == odx_rec.response_params[1].value
    IN /\ value = _get_positive_response_id(odx_rec.service_id)
       /\ Len(value) = 4
       /\ SubSeq(value, 1, 2) = <<"0", "x">>
       /\ IsUpperHex(SubSeq(value, 3, Len(value)))

\* the id of the ODX DID that _convert_data_identifier produces for a DID with
\* identifier s
OdxDidIdFor(s) ==
  _convert_data_identifier(DataIdentifier(s, <<"VIN">>, None, Absent, None)).id

\* C29: the structure reference emitted after a response DataIdentifier
\* parameter with a hex identifier s, upper or lower case, with or without the
\* 0x prefix, is "DOP." followed by the id of the ODX DID produced for a DID
\* with identifier s.
C29_StructureRefResolves ==
  ServiceProduced =>
    LET rp == odx_rec.response_params
    IN \A i \in 2..Len(rp) :
         (rp[i].type = "DataIdentifier" /\ IsHexIdent(rp[i].value)) =>
           /\ i < Len(rp)
           /\ rp[i + 1].structure_ref[1] = "DOP.DID_"
           /\ OdxDidIdFor(rp[i].value)[1] = "DID_"
           /\ Tail(rp[i + 1].structure_ref) = Tail(OdxDidIdFor(rp[i].value))

----------------------------------------------------------------------------
\* upload_file of the web application: one call per request, requests interleaved

\* A variant of ParserOf in which every request uses one parser of the process.
ParserOf_shared(r) == 1

\* parser = EnhancedCDDParser(): the instance request r works on is its own
ParserOf(r) == r

VinDid == CHOOSE d \in CoreDidElems : d.n = <<"6", "5", "1", "6", "8">>
MalformedDid == CHOOSE d \in CoreDidElems : d.n = <<"a", "b", "c">>
StatusDid == CHOOSE d \in CoreDidElems : d.n = <<"2", "5", "5">>
SessionSvc == CHOOSE x \in CoreSvcElems : x.desc_tuv # Absent
UnnamedSvc == CHOOSE x \in CoreSvcElems : x.name_tuv = Absent

\* the uploaded files
UploadFiles ==
  {File(Absent, Present(ds), Present(ss)) :
     ds \in {<<>>, <<VinDid>>, <<VinDid, MalformedDid>>, <<StatusDid, VinDid>>},
     ss \in {<<SessionSvc>>, <<UnnamedSvc, SessionSvc>>}}
  \cup {File(Absent, Absent, Absent), BadFile}

\* lines 48-74: the file is saved, the parser constructed and parse_file called;
\* when it raises, the handler flashes the error and redirects (lines 136-138)
upload_file(r, f) ==
  /\ uploads[r].pc = "idle"
  /\ IF f.wellformed
     THEN /\ parsers' = [parsers EXCEPT ![ParserOf(r)] =
                           _extract_document_info(EnhancedCDDParser, f)]
          /\ uploads' = [uploads EXCEPT ![r] =
                           [pc |-> "dids", file |-> f, idx |-> 1, results |-> NoneRec]]
     ELSE /\ parsers' = [parsers EXCEPT ![ParserOf(r)] = EnhancedCDDParser]
          /\ uploads' = [uploads EXCEPT ![r] =
                           [pc |-> "failed", file |-> f, idx |-> 0, results |-> NoneRec]]
  /\ UNCHANGED parser_vars
  /\ UNCHANGED mapper_vars
  /\ UNCHANGED rerun_vars
  /\ UNCHANGED enrich_vars

\* one iteration of the loop of _extract_dids on the parser of request r
upload_extract_dids_next(r) ==
  /\ uploads[r].pc = "dids" /\ parsers[ParserOf(r)] # NoneRec
  /\ uploads[r].idx <= SectionLen(uploads[r].file.dids)
  /\ LET did == _parse_did(uploads[r].file.dids[1][uploads[r].idx])
     IN parsers' = [parsers EXCEPT ![ParserOf(r)].dids =
                      IF did # NoneRec THEN Append(@, did) ELSE @]
  /\ uploads' = [uploads EXCEPT ![r].idx = @ + 1]
  /\ UNCHANGED parser_vars
  /\ UNCHANGED mapper_vars
  /\ UNCHANGED rerun_vars
  /\ UNCHANGED enrich_vars

upload_extract_dids_return(r) ==
  /\ uploads[r].pc = "dids"
  /\ uploads[r].idx > SectionLen(uploads[r].file.dids)
  /\ uploads' = [uploads EXCEPT ![r].pc = "services", ![r].idx = 1]
  /\ UNCHANGED parsers
  /\ UNCHANGED parser_vars
  /\ UNCHANGED mapper_vars
  /\ UNCHANGED rerun_vars
  /\ UNCHANGED enrich_vars

\* one iteration of the loop of _extract_protocol_services on that parser
upload_extract_protocol_services_next(r) ==
  /\ uploads[r].pc = "services" /\ parsers[ParserOf(r)] # NoneRec
  /\ uploads[r].idx <= SectionLen(uploads[r].file.services)
  /\ LET service == _parse_protocol_service(uploads[r].file.services[1][uploads[r].idx])
     IN parsers' = [parsers EXCEPT ![ParserOf(r)].protocol_services =
                      IF service # NoneRec THEN Append(@, service) ELSE @]
  /\ uploads' = [uploads EXCEPT ![r].idx = @ + 1]
  /\ UNCHANGED parser_vars
  /\ UNCHANGED mapper_vars
  /\ UNCHANGED rerun_vars
  /\ UNCHANGED enrich_vars

\* parse_file returns self.document as cdd_document
upload_extract_protocol_services_return(r) ==
  /\ uploads[r].pc = "services"
  /\ uploads[r].idx > SectionLen(uploads[r].file.services)
  /\ uploads' = [uploads EXCEPT ![r].pc = "parsed", ![r].idx = 0]
  /\ UNCHANGED parsers
  /\ UNCHANGED parser_vars
  /\ UNCHANGED mapper_vars
  /\ UNCHANGED rerun_vars
  /\ UNCHANGED enrich_vars

\* lines 92-134: the lists handed to the PDF and HTML generators and the counts
\* of the results page, all read from cdd_document
upload_results(r) ==
  /\ uploads[r].pc = "parsed" /\ parsers[ParserOf(r)] # NoneRec
  /\ LET cdd_document == parsers[ParserOf(r)]
     IN uploads' = [uploads EXCEPT
                      ![r].pc = "rendered",
                      ![r].results =
                         [services |-> cdd_document.protocol_services,
                          dids |-> cdd_document.dids,
                          services_count |-> Len(cdd_document.protocol_services),
                          dids_count |-> Len(cdd_document.dids)]]
  /\ UNCHANGED parsers
  /\ UNCHANGED parser_vars
  /\ UNCHANGED mapper_vars
  /\ UNCHANGED rerun_vars
  /\ UNCHANGED enrich_vars

\* the response is sent; the handler's locals, the parser among them, are dropped
upload_file_return(r) ==
  /\ uploads[r].pc \in {"rendered", "failed"}
  /\ uploads' = [uploads EXCEPT ![r] = NoUpload]
  /\ parsers' = [parsers EXCEPT ![ParserOf(r)] = NoneRec]
  /\ UNCHANGED parser_vars
  /\ UNCHANGED mapper_vars
  /\ UNCHANGED rerun_vars
  /\ UNCHANGED enrich_vars

NextUpload ==
  \/ \E r \in Requests, f \in UploadFiles : upload_file(r, f)
  \/ \E r \in Requests : upload_extract_dids_next(r)
  \/ \E r \in Requests : upload_extract_dids_return(r)
  \/ \E r \in Requests : upload_extract_protocol_services_next(r)
  \/ \E r \in Requests : upload_extract_protocol_services_return(r)
  \/ \E r \in Requests : upload_results(r)
  \/ \E r \in Requests : upload_file_return(r)

SpecUpload == Init /\ [][NextUpload]_vars

\* what extraction yields from the DIDS section of file f alone
DidsOfFile(f) ==
  IF f.dids = Absent THEN <<>>
  ELSE Successes([i \in 1..Len(f.dids[1]) |-> _parse_did(f.dids[1][i])])

\* what extraction yields from the PROTOCOLSERVICES section of file f alone
ServicesOfFile(f) ==
  IF f.services = Absent THEN <<>>
  ELSE Successes([i \in 1..Len(f.services[1]) |-> _parse_protocol_service(f.services[1][i])])

\* C30: whatever other uploads came before or are being handled at the same
\* time, the lists an upload hands to the report generators are the services and
\* DIDs extracted from its own file, and services_count and dids_count are
\* their numbers.
C30_CountsPerUpload ==
  \A r \in Requests :
    uploads[r].pc = "rendered" =>
      /\ uploads[r].results.dids = DidsOfFile(uploads[r].file)
      /\ uploads[r].results.services = ServicesOfFile(uploads[r].file)
      /\ uploads[r].results.dids_count = Len(DidsOfFile(uploads[r].file))
      /\ uploads[r].results.services_count = Len(ServicesOfFile(uploads[r].file))

\* C30 witness: the results of an upload with two DIDs and one service are
\* ready while another upload, of a file with one DID and other services, is in
\* the middle of its extraction
C30_Witness ==
  \E r, q \in Requests :
    /\ r # q
    /\ uploads[r].pc = "rendered"
    /\ uploads[r].results.dids_count = 2 /\ uploads[r].results.services_count = 1
    /\ uploads[q].pc = "services" /\ uploads[q].idx = 2
    /\ uploads[q].file # uploads[r].file
    /\ Len(parsers[ParserOf(q)].dids) = 1
====
